---------------------------- MODULE Spec2Model ----------------------------
(* Model of hudson-news-bot: the duplicate-detection core                  *)
(* (reddit/deduplicator.py), the board client (reddit/client.py) and the   *)
(* orchestrator (main.py).  Strings are sequences of one-character         *)
(* strings, so that lower-casing, prefixes, suffixes, substrings and       *)
(* lengths are computed as the Python code computes them.                  *)
EXTENDS Integers, Sequences, FiniteSets, TLC

(***************************************************************************)
(* Python str helpers                                                      *)
(***************************************************************************)
UpperChars == <<"A","B","C","D","E","F","G","H","I","J","K","L","M",
                "N","O","P","Q","R","S","T","U","V","W","X","Y","Z">>
LowerChars == <<"a","b","c","d","e","f","g","h","i","j","k","l","m",
                "n","o","p","q","r","s","t","u","v","w","x","y","z">>

\* str.lower() on one character
LowerChar(c) ==
    IF \E i \in 1..Len(UpperChars) : UpperChars[i] = c
    THEN LowerChars[CHOOSE i \in 1..Len(UpperChars) : UpperChars[i] = c]
    ELSE c

\* str.lower()
Lower(s) == [i \in 1..Len(s) |-> LowerChar(s[i])]

\* str.isspace() on one character
IsSpace(c) == c \in {" ", "\t", "\n"}

\* str.startswith(p)
StartsWith(s, p) == Len(p) <= Len(s) /\ SubSeq(s, 1, Len(p)) = p

\* str.endswith(p)
EndsWith(s, p) == Len(p) <= Len(s) /\ SubSeq(s, Len(s) - Len(p) + 1, Len(s)) = p

RECURSIVE LStrip(_)
\* str.lstrip()
LStrip(s) == IF s # <<>> /\ IsSpace(Head(s)) THEN LStrip(Tail(s)) ELSE s

RECURSIVE RStrip(_)
\* str.rstrip()
RStrip(s) ==
    IF s # <<>> /\ IsSpace(s[Len(s)]) THEN RStrip(SubSeq(s, 1, Len(s) - 1)) ELSE s

\* str.strip()
Strip(s) == LStrip(RStrip(s))

RECURSIVE RStripChar(_, _)
\* str.rstrip(c) for a single character c
RStripChar(s, c) ==
    IF s # <<>> /\ s[Len(s)] = c THEN RStripChar(SubSeq(s, 1, Len(s) - 1), c) ELSE s

\* length of the first word of a string that does not start with whitespace
FirstWordLen(t) ==
    CHOOSE n \in 1..Len(t) :
        /\ \A i \in 1..n : ~IsSpace(t[i])
        /\ (n = Len(t) \/ IsSpace(t[n + 1]))

RECURSIVE SplitJoin(_)
\* " ".join(s.split())
SplitJoin(s) ==
    LET t == LStrip(s) IN
    IF t = <<>> THEN <<>>
    ELSE LET n == FirstWordLen(t)
             r == SplitJoin(SubSeq(t, n + 1, Len(t)))
         IN  IF r = <<>> THEN SubSeq(t, 1, n)
             ELSE SubSeq(t, 1, n) \o <<" ">> \o r

\* the Python operator "sub in s" on strings
IsSubstring(sub, s) ==
    \E i \in 0..(Len(s) - Len(sub)) : SubSeq(s, i + 1, i + Len(sub)) = sub

(***************************************************************************)
(* DuplicationChecker._normalize_title                                     *)
(***************************************************************************)
\* "breaking:"
P_breaking == <<"b","r","e","a","k","i","n","g",":">>
\* "update:"
P_update == <<"u","p","d","a","t","e",":">>
\* "news:"
P_news == <<"n","e","w","s",":">>
\* "report:"
P_report == <<"r","e","p","o","r","t",":">>
\* "- cnn"
S_cnn == <<"-"," ","c","n","n">>
\* "| reuters"
S_reuters == <<"|"," ","r","e","u","t","e","r","s">>
\* "| ap news"
S_apnews == <<"|"," ","a","p"," ","n","e","w","s">>
\* "- bbc"
S_bbc == <<"-"," ","b","b","c">>
\* "- updated"
S_updated == <<"-"," ","u","p","d","a","t","e","d">>
\* "- update"
S_update == <<"-"," ","u","p","d","a","t","e">>
\* "(updated)"
S_pupdated == <<"(","u","p","d","a","t","e","d",")">>
\* "(update)"
S_pupdate == <<"(","u","p","d","a","t","e",")">>

prefixes_to_remove == <<P_breaking, P_update, P_news, P_report>>
suffixes_to_remove ==
    <<S_cnn, S_reuters, S_apnews, S_bbc, S_updated, S_update, S_pupdated, S_pupdate>>

RECURSIVE RemovePrefixes(_, _)
\* the loop "for prefix in prefixes_to_remove", from index i on
RemovePrefixes(normalized, i) ==
    IF i > Len(prefixes_to_remove) THEN normalized
    ELSE LET prefix == prefixes_to_remove[i] IN
         RemovePrefixes(
             IF StartsWith(normalized, prefix)
             THEN Strip(SubSeq(normalized, Len(prefix) + 1, Len(normalized)))
             ELSE normalized,
             i + 1)

RECURSIVE RemoveSuffixes(_, _)
\* the loop "for suffix in suffixes_to_remove", from index i on
RemoveSuffixes(normalized, i) ==
    IF i > Len(suffixes_to_remove) THEN normalized
    ELSE LET suffix == suffixes_to_remove[i] IN
         RemoveSuffixes(
             IF EndsWith(normalized, suffix)
             THEN Strip(SubSeq(normalized, 1, Len(normalized) - Len(suffix)))
             ELSE normalized,
             i + 1)

_normalize_title(title) ==
    RemoveSuffixes(RemovePrefixes(SplitJoin(Lower(title)), 1), 1)

(***************************************************************************)
(* DuplicationChecker._normalize_url.  A URL is the result of urlparse:    *)
(* [scheme, netloc, path, params, query, fragment], the query being the    *)
(* sequence of its <<key, value>> pairs in the order written.              *)
(***************************************************************************)
\* "utm_"
K_utm == <<"u","t","m","_">>
\* "fb_"
K_fb == <<"f","b","_">>
\* "gclid"
K_gclid == <<"g","c","l","i","d">>
\* "ref_"
K_ref == <<"r","e","f","_">>
\* "campaign"
K_campaign == <<"c","a","m","p","a","i","g","n">>
\* "www."
W_www == <<"w","w","w",".">>

tracking_prefixes == {K_utm, K_fb, K_gclid, K_ref, K_campaign}

\* k.lower().startswith(("utm_", "fb_", "gclid", "ref_", "campaign"))
IsTrackingKey(k) == \E p \in tracking_prefixes : StartsWith(Lower(k), p)

RECURSIVE DistinctKeys(_, _)
\* the keys of a pair list in order of first appearance (dict insertion order)
DistinctKeys(q, seen) ==
    IF q = <<>> THEN <<>>
    ELSE IF Head(q)[1] \in seen THEN DistinctKeys(Tail(q), seen)
    ELSE <<Head(q)[1]>> \o DistinctKeys(Tail(q), seen \cup {Head(q)[1]})

RECURSIVE ValuesOf(_, _)
\* the values a pair list gives for key k, in order
ValuesOf(q, k) ==
    IF q = <<>> THEN <<>>
    ELSE (IF Head(q)[1] = k THEN <<Head(q)[2]>> ELSE <<>>) \o ValuesOf(Tail(q), k)

\* urllib.parse.parse_qs: blank values dropped, values grouped by key
parse_qs(q) ==
    LET nb   == SelectSeq(q, LAMBDA p : p[2] # <<>>)
        keys == DistinctKeys(nb, {})
    IN  [i \in 1..Len(keys) |-> <<keys[i], ValuesOf(nb, keys[i])>>]

RECURSIVE urlencode(_)
\* urllib.parse.urlencode(d, doseq=True): one key=value per value, key by key
urlencode(d) ==
    IF d = <<>> THEN <<>>
    ELSE [i \in 1..Len(Head(d)[2]) |-> <<Head(d)[1], Head(d)[2][i]>>]
         \o urlencode(Tail(d))

_normalize_url(url) ==
    LET query_params    == parse_qs(url.query)
        filtered_params == SelectSeq(query_params, LAMBDA e : ~IsTrackingKey(e[1]))
        new_query       == urlencode(filtered_params)
        lowered         == Lower(url.netloc)
        domain          == IF StartsWith(lowered, W_www)
                           THEN SubSeq(lowered, 5, Len(lowered))
                           ELSE lowered
        stripped        == RStripChar(url.path, "/")
        path            == IF stripped = <<>> THEN <<"/">> ELSE stripped
    IN  [scheme   |-> Lower(url.scheme),
         netloc   |-> domain,
         path     |-> path,
         params   |-> url.params,
         query    |-> new_query,
         fragment |-> <<>>]

\* DuplicationChecker._hash_string: SHA-256 of the text, taken as collision-free
_hash_string(text) == <<"sha256", text>>

(***************************************************************************)
(* Inputs: the headlines, links and board posts the runs are drawn from    *)
(***************************************************************************)
\* "Breaking: Major News Story"
T_BreakingMajor == <<"B","r","e","a","k","i","n","g",":"," ","M","a","j","o","r"," ","N","e","w","s"," ","S","t","o","r","y">>
\* "major news story"
T_major == <<"m","a","j","o","r"," ","n","e","w","s"," ","s","t","o","r","y">>
\* "Major  News Story - Updated"
T_MajorUpdated == <<"M","a","j","o","r"," "," ","N","e","w","s"," ","S","t","o","r","y"," ","-"," ","U","p","d","a","t","e","d">>
\* "Completely Different News"
T_Different == <<"C","o","m","p","l","e","t","e","l","y"," ","D","i","f","f","e","r","e","n","t"," ","N","e","w","s">>
\* "WWW.Example.com"
H_www == <<"W","W","W",".","E","x","a","m","p","l","e",".","c","o","m">>
\* "example.com"
H_plain == <<"e","x","a","m","p","l","e",".","c","o","m">>
\* "different.com"
H_other == <<"d","i","f","f","e","r","e","n","t",".","c","o","m">>
\* "town.org"
H_town == <<"t","o","w","n",".","o","r","g">>
\* "https"
Sch_https == <<"h","t","t","p","s">>
\* "/article"
Pa_article == <<"/","a","r","t","i","c","l","e">>
\* "/article/"
Pa_articleSlash == <<"/","a","r","t","i","c","l","e","/">>
\* "/council"
Pa_council == <<"/","c","o","u","n","c","i","l">>
\* "/plan"
Pa_plan == <<"/","p","l","a","n">>
\* "utm_source"
Q_utm_source == <<"u","t","m","_","s","o","u","r","c","e">>
\* "x"
V_x == <<"x">>
\* "top"
F_top == <<"t","o","p">>

Url(netloc, path, query, fragment) ==
    [scheme |-> Sch_https, netloc |-> netloc, path |-> path, params |-> <<>>,
     query |-> query, fragment |-> fragment]

\* https://example.com/article
U_plain == Url(H_plain, Pa_article, <<>>, <<>>)
\* https://WWW.Example.com/article/?utm_source=x#top
U_www == Url(H_www, Pa_articleSlash, << <<Q_utm_source, V_x>> >>, F_top)
\* https://different.com/article
U_other == Url(H_other, Pa_article, <<>>, <<>>)
\* https://town.org/council
U_town == Url(H_town, Pa_council, <<>>, <<>>)

\* https://different.com/plan
U_far == Url(H_other, Pa_plan, <<>>, <<>>)
\* "Weather"
T_Weather == <<"W","e","a","t","h","e","r">>

\* "Completely Different News Today"
T_DifferentToday == <<"C","o","m","p","l","e","t","e","l","y"," ","D","i","f","f","e","r","e","n","t"," ","N","e","w","s"," ","T","o","d","a","y">>

\* the candidate articles, by name
ItemIds == {"I1", "I2", "I3", "I4"}

\* NewsItem: the fields the duplicate check and the post use.
\* I1 and I2 have the same canonical URL and unrelated titles; I1 and I3 the
\* same canonical title and different URLs; the canonical title of I2 is a
\* substring of that of I4 (25 of 31 characters), their URLs differ.
NewsItem(id) ==
    CASE id = "I1" -> [headline |-> T_BreakingMajor,  link |-> U_plain]
      [] id = "I2" -> [headline |-> T_Different,      link |-> U_www]
      [] id = "I3" -> [headline |-> T_major,          link |-> U_town]
      [] id = "I4" -> [headline |-> T_DifferentToday, link |-> U_other]

\* Python's None, and a post identifier, both as sequences
None == <<>>
PostId(n) == <<"t3", n>>

\* posts other users made on the board: id, url, title, and what walking
\* duplicates() yields (items, then an exception if fails)
RemotePosts ==
    { [id |-> <<"r1">>, url |-> U_www, title |-> T_Weather,
       duplicates |-> [items |-> <<>>, fails |-> FALSE]],
      [id |-> <<"r2">>, url |-> U_far, title |-> T_MajorUpdated,
       duplicates |-> [items |-> <<>>, fails |-> TRUE]],
      [id |-> <<"r3">>, url |-> U_far, title |-> T_Weather,
       duplicates |-> [items |-> << [id |-> <<"r4">>, url |-> U_town] >>,
                       fails |-> TRUE]] }

\* "abcdefghijklmnopqrstuvwxyzabcd": the headlines cut from it have no prefix, suffix or space,
\* so each is its own canonical title but for the letter case
T_Alphabet == <<"a","b","c","d","e","f","g","h","i","j","k","l","m","n","o","p","q","r","s","t","u","v","w","x","y","z","a","b","c","d">>
\* "DCBAZYXWVUTSRQPONMLKJIHGF"
T_Reversed == <<"D","C","B","A","Z","Y","X","W","V","U","T","S","R","Q","P","O","N","M","L","K","J","I","H","G","F">>
\* the lengths at which the title comparison changes its answer: 20 against the
\* length test, 24 of 30 against the ratio 0.8
SimilarityLengths == {20, 21, 22, 24, 25, 30}

\* the headlines compared pairwise
SimilarityTitles ==
    {SubSeq(T_Alphabet, 1, n) : n \in SimilarityLengths}
    \cup {T_Reversed, T_BreakingMajor, T_major, T_Different, T_DifferentToday}

\* every headline and link of the inputs
Titles ==
    {NewsItem(id).headline : id \in ItemIds} \cup {p.title : p \in RemotePosts}
    \cup SimilarityTitles
Urls ==
    {NewsItem(id).link : id \in ItemIds} \cup {p.url : p \in RemotePosts}
    \cup UNION { {p.duplicates.items[k].url : k \in 1..Len(p.duplicates.items)}
                 : p \in RemotePosts }

\* the canonical forms of the inputs, computed once
title_table == { <<t, _normalize_title(t)>> : t \in Titles }
url_table == { <<u, _normalize_url(u)>> : u \in Urls }

\* self._normalize_title(title) and self._normalize_url(url) on an input
NormalizedTitle(title) == (CHOOSE e \in title_table : e[1] = title)[2]
NormalizedUrl(url) == (CHOOSE e \in url_table : e[1] = url)[2]

_urls_are_similar(url1, url2) ==
    LET norm1 == NormalizedUrl(url1)
        norm2 == NormalizedUrl(url2)
    IN  norm1 = norm2

\* _titles_are_similar with the ratio test "at least 0.8"
_titles_are_similar_at_least(title1, title2) ==
    LET norm1   == NormalizedTitle(title1)
        norm2   == NormalizedTitle(title2)
        shorter == IF Len(norm1) < Len(norm2) THEN norm1 ELSE norm2
        longer  == IF Len(norm1) < Len(norm2) THEN norm2 ELSE norm1
    IN  \/ norm1 = norm2
        \/ /\ Len(norm1) > 20
           /\ Len(norm2) > 20
           /\ IsSubstring(shorter, longer)
           /\ 10 * Len(shorter) >= 8 * Len(longer)

\* _titles_are_similar without the test of the lengths against 20
_titles_are_similar_any_length(title1, title2) ==
    LET norm1   == NormalizedTitle(title1)
        norm2   == NormalizedTitle(title2)
        shorter == IF Len(norm1) < Len(norm2) THEN norm1 ELSE norm2
        longer  == IF Len(norm1) < Len(norm2) THEN norm2 ELSE norm1
    IN  \/ norm1 = norm2
        \/ /\ IsSubstring(shorter, longer)
           /\ 10 * Len(shorter) > 8 * Len(longer)

_titles_are_similar(title1, title2) ==
    LET norm1   == NormalizedTitle(title1)
        norm2   == NormalizedTitle(title2)
        shorter == IF Len(norm1) < Len(norm2) THEN norm1 ELSE norm2
        longer  == IF Len(norm1) < Len(norm2) THEN norm2 ELSE norm1
    IN  \/ norm1 = norm2
        \/ /\ Len(norm1) > 20
           /\ Len(norm2) > 20
           /\ IsSubstring(shorter, longer)
           \* len(shorter) / len(longer) > 0.8
           /\ 10 * Len(shorter) > 8 * Len(longer)

(***************************************************************************)
(* Bounds of the model                                                     *)
(***************************************************************************)
MaxBatch == 2
MaxRuns == 2
MaxTicks == 1
TickDays == 31
max_search_results == 2
MaxOps == 2
MaxAdvances == 2
MaxScrapes == 2
days_to_keep == 30
\* timedelta(days=1), in the unit of the clock (hours)
HoursPerDay == 24

(***************************************************************************)
(* The Submission-History Store: the rows of table submitted_urls in       *)
(* rowid order (AUTOINCREMENT: a later insert has a larger rowid)          *)
(***************************************************************************)
\* the row _store_submission inserts
Row(news_item, submission_id, source, at) ==
    LET normalized_url   == NormalizedUrl(news_item.link)
        normalized_title == NormalizedTitle(news_item.headline)
    IN  [url            |-> news_item.link,
         url_hash       |-> _hash_string(normalized_url),
         normalized_url |-> normalized_url,
         title          |-> news_item.headline,
         title_hash     |-> _hash_string(normalized_title),
         submission_id  |-> submission_id,
         submitted_at   |-> at,
         source         |-> source]

\* _store_submission replacing the rows of the same canonical URL (an upsert)
_store_submission_upsert(rows, news_item, submission_id, source, at) ==
    LET row == Row(news_item, submission_id, source, at) IN
    Append(SelectSeq(rows, LAMBDA r : r.url_hash # row.url_hash), row)

\* INSERT INTO submitted_urls ... ; commit
_store_submission(rows, news_item, submission_id, source, at) ==
    Append(rows, Row(news_item, submission_id, source, at))

\* store_submission writing the tag of a remote hit
store_submission_as_reddit(rows, news_item, submission_id, at) ==
    _store_submission(rows, news_item, submission_id, "reddit", at)

\* store_submission: the record of an accepted post
store_submission(rows, news_item, submission_id, at) ==
    _store_submission(rows, news_item, submission_id, "local", at)

\* the sweep deleting every record
cleanup_old_records_all(rows, at, days) == <<>>

\* DELETE FROM submitted_urls WHERE submitted_at < cutoff_date
cleanup_old_records(rows, at, days) ==
    SelectSeq(rows, LAMBDA r : ~(r.submitted_at < at - days * HoursPerDay))

\* cursor.fetchone() of SELECT ... WHERE <column> = <value>: the first row in
\* rowid order, or None
FirstRow(rows, column, value) ==
    LET hits == SelectSeq(rows, LAMBDA r : r[column] = value) IN
    IF hits = <<>> THEN None ELSE <<Head(hits)>>

\* _check_local_database looking the title up before the URL
_check_local_database_title_first(rows, news_item) ==
    LET url_hash    == _hash_string(NormalizedUrl(news_item.link))
        title_hash  == _hash_string(NormalizedTitle(news_item.headline))
        url_match   == FirstRow(rows, "url_hash", url_hash)
        title_match == FirstRow(rows, "title_hash", title_hash)
    IN  IF title_match # None
        THEN [dup |-> TRUE, reads |-> 1,
              reason |-> [kind |-> "Similar title already submitted",
                          id   |-> title_match[1].submission_id,
                          date |-> title_match[1].submitted_at]]
        ELSE IF url_match # None
        THEN [dup |-> TRUE, reads |-> 2,
              reason |-> [kind |-> "URL already submitted",
                          id   |-> url_match[1].submission_id,
                          date |-> url_match[1].submitted_at]]
        ELSE [dup |-> FALSE, reads |-> 2, reason |-> None]

\* _check_local_database without the title lookup
_check_local_database_url_only(rows, news_item) ==
    LET url_hash  == _hash_string(NormalizedUrl(news_item.link))
        url_match == FirstRow(rows, "url_hash", url_hash)
    IN  IF url_match # None
        THEN [dup |-> TRUE, reads |-> 1,
              reason |-> [kind |-> "URL already submitted",
                          id   |-> url_match[1].submission_id,
                          date |-> url_match[1].submitted_at]]
        ELSE [dup |-> FALSE, reads |-> 1, reason |-> None]

\* _check_local_database: URL lookup, then title lookup; reads counts the SELECTs
_check_local_database(rows, news_item) ==
    LET url_hash    == _hash_string(NormalizedUrl(news_item.link))
        title_hash  == _hash_string(NormalizedTitle(news_item.headline))
        url_match   == FirstRow(rows, "url_hash", url_hash)
        title_match == FirstRow(rows, "title_hash", title_hash)
    IN  IF url_match # None
        THEN [dup |-> TRUE, reads |-> 1,
              reason |-> [kind |-> "URL already submitted",
                          id   |-> url_match[1].submission_id,
                          date |-> url_match[1].submitted_at]]
        ELSE IF title_match # None
        THEN [dup |-> TRUE, reads |-> 2,
              reason |-> [kind |-> "Similar title already submitted",
                          id   |-> title_match[1].submission_id,
                          date |-> title_match[1].submitted_at]]
        ELSE [dup |-> FALSE, reads |-> 2, reason |-> None]

(***************************************************************************)
(* RedditClient.search_submissions and the Remote-Duplicate Prober         *)
(***************************************************************************)
\* all lists of distinct posts of at most n entries
PostLists(n) ==
    { s \in UNION { [1..k -> RemotePosts] : k \in 0..n } :
        \A a, b \in DOMAIN s : a # b => s[a] # s[b] }

\* what one call of search_submissions can meet: _get_subreddit raising (only
\* while the subreddit is not cached yet), subreddit.search raising, or a
\* result list of at most limit posts
SearchEvents(cached, limit) ==
    (IF cached THEN {} ELSE {[kind |-> "connect_error", posts |-> <<>>]})
    \cup {[kind |-> "search_error", posts |-> <<>>]}
    \cup {[kind |-> "ok", posts |-> s] : s \in PostLists(limit)}

\* search_submissions: _get_subreddit is outside the try and raises to the
\* caller; an exception of the search itself is logged and [] returned
search_submissions(event) ==
    IF event.kind = "connect_error"
    THEN [raised |-> TRUE, submissions |-> <<>>]
    ELSE IF event.kind = "search_error"
    THEN [raised |-> FALSE, submissions |-> <<>>]
    ELSE [raised |-> FALSE, submissions |-> event.posts]

\* the two queries of _check_reddit_submissions
search_queries(news_item) ==
    << [kind |-> "site", text |-> news_item.link.netloc],
       [kind |-> "headline",
        text |-> SubSeq(news_item.headline, 1,
                        IF Len(news_item.headline) < 50
                        THEN Len(news_item.headline) ELSE 50)] >>

\* the body of "for submission in submissions" for one submission; walk_raised:
\* the walk of submission.duplicates() ended in an exception, which is logged
CheckSubmission(news_item, submission) ==
    LET dups == submission.duplicates.items
        hit  == { k \in 1..Len(dups) : _urls_are_similar(news_item.link, dups[k].url) }
        k0   == CHOOSE k \in hit : \A m \in hit : k <= m
    IN  IF _urls_are_similar(news_item.link, submission.url)
        THEN [dup |-> TRUE, walk_raised |-> FALSE,
              reason |-> [kind |-> "Similar URL found", id |-> submission.id]]
        ELSE IF _titles_are_similar(news_item.headline, submission.title)
        THEN [dup |-> TRUE, walk_raised |-> FALSE,
              reason |-> [kind |-> "Similar title found", id |-> submission.id]]
        ELSE IF hit # {}
        THEN [dup |-> TRUE, walk_raised |-> FALSE,
              reason |-> [kind |-> "Duplicate URL found via Reddit API",
                          id |-> dups[k0].id]]
        ELSE [dup |-> FALSE, walk_raised |-> submission.duplicates.fails,
              reason |-> None]

RECURSIVE CheckSubmissions_until_failure(_, _)
\* the loop "for submission in submissions" ended by the first walk that raises
CheckSubmissions_until_failure(news_item, listing) ==
    IF listing = <<>> THEN [dup |-> FALSE, walk_raised |-> FALSE, reason |-> None]
    ELSE LET one == CheckSubmission(news_item, Head(listing)) IN
         IF one.dup \/ one.walk_raised THEN one
         ELSE CheckSubmissions_until_failure(news_item, Tail(listing))

RECURSIVE CheckSubmissions_last_match(_, _)
\* the loop "for submission in submissions" returning its last match
CheckSubmissions_last_match(news_item, listing) ==
    IF listing = <<>> THEN [dup |-> FALSE, walk_raised |-> FALSE, reason |-> None]
    ELSE LET one  == CheckSubmission(news_item, Head(listing))
             rest == CheckSubmissions_last_match(news_item, Tail(listing))
         IN  IF rest.dup THEN rest ELSE one

RECURSIVE CheckSubmissions(_, _)
\* the loop "for submission in submissions": the first match ends it, a walk
\* that raised does not
CheckSubmissions(news_item, listing) ==
    IF listing = <<>> THEN [dup |-> FALSE, walk_raised |-> FALSE, reason |-> None]
    ELSE LET one  == CheckSubmission(news_item, Head(listing))
             rest == CheckSubmissions(news_item, Tail(listing))
         IN  IF one.dup THEN one
             ELSE [rest EXCEPT !.walk_raised = one.walk_raised \/ rest.walk_raised]

\* a post of the listing matches the item
HoldsMatch(news_item, listing) ==
    \E k \in 1..Len(listing) : CheckSubmission(news_item, listing[k]).dup

\* what the searches of one probe meet, query by query: the connection can
\* only fail while the subreddit is not cached, that is at the first search
EventSeqs(news_item, cached, limit) ==
    { evs \in [1..Len(search_queries(news_item)) -> SearchEvents(FALSE, limit)] :
        \A q \in DOMAIN evs :
            evs[q].kind = "connect_error" => (q = 1 /\ ~cached) }

RECURSIVE ProbeWith(_, _, _, _, _)
\* _check_reddit_submissions from query q on, when the search of query q meets
\* events[q].  A search is logged with its query, how it ended, whether a walk
\* of duplicates() raised on one of the posts looked at, and whether its
\* result holds a post that matches the item.
ProbeWith(news_item, q, cached, events, searches) ==
    IF q > Len(search_queries(news_item))
    THEN [raised |-> FALSE, dup |-> FALSE, reason |-> None,
          searches |-> searches, cached |-> cached]
    ELSE LET got   == search_submissions(events[q])
             found == CheckSubmissions(news_item, got.submissions)
             log   == Append(searches,
                             [query |-> q, event |-> events[q].kind,
                              walk_raised |-> found.walk_raised,
                              holds_match |-> HoldsMatch(news_item, got.submissions)])
         IN  IF got.raised
             THEN [raised |-> TRUE, dup |-> FALSE, reason |-> None,
                   searches |-> log, cached |-> cached]
             ELSE IF found.dup
             THEN [raised |-> FALSE, dup |-> TRUE, reason |-> found.reason,
                   searches |-> log, cached |-> TRUE]
             ELSE ProbeWith(news_item, q + 1, TRUE, events, log)

\* _check_reddit_submissions from query q on: the set of its possible outcomes,
\* each with the searches issued so far
_check_reddit_submissions(news_item, q, cached, limit, searches) ==
    { ProbeWith(news_item, q, cached, events, searches)
      : events \in EventSeqs(news_item, cached, limit) }

\* the NewsItems of the inputs
Items == {NewsItem(id) : id \in ItemIds}

\* the outcomes of the prober per input item, computed once
probe_table ==
    { <<item, cached,
        _check_reddit_submissions(item, 1, cached, max_search_results, <<>>)>>
      : item \in Items, cached \in BOOLEAN }

\* await self._check_reddit_submissions(news_item), limit config.max_search_results
ProbeOutcomes(news_item, cached) ==
    (CHOOSE e \in probe_table : e[1] = news_item /\ e[2] = cached)[3]

(***************************************************************************)
(* DuplicationChecker.is_duplicate: the set of its possible outcomes.      *)
(* raised: an exception left the call; rows: the store afterwards;         *)
(* reads, searches, wrote: the store SELECTs, remote searches and store    *)
(* INSERT the call made.  An INSERT may fail (disk or lock error).         *)
(***************************************************************************)
\* how the call of the prober ended
ProbeKind(remote) ==
    IF remote.raised THEN "raised" ELSE IF remote.dup THEN "match" ELSE "nomatch"

\* an outcome in which is_duplicate returned (dup, reason)
Returned(dup, reason, reads, searches, wrote, rows, cached, probe) ==
    [raised |-> FALSE, dup |-> dup, reason |-> reason, reads |-> reads,
     searches |-> searches, wrote |-> wrote, rows |-> rows, cached |-> cached,
     probe |-> probe]

\* an outcome in which an exception left is_duplicate
Raised(reads, searches, rows, cached, probe) ==
    [raised |-> TRUE, dup |-> FALSE, reason |-> None, reads |-> reads,
     searches |-> searches, wrote |-> FALSE, rows |-> rows, cached |-> cached,
     probe |-> probe]

\* is_duplicate asking the board before the local store
is_duplicate_remote_first(rows, check_for_dups, cached, news_item, at) ==
    IF ~check_for_dups
    THEN {Returned(FALSE, None, 0, <<>>, FALSE, rows, cached, "none")}
    ELSE UNION {
        IF remote.raised
        THEN {Raised(0, remote.searches, rows, remote.cached,
                    ProbeKind(remote))}
        ELSE IF remote.dup
        THEN {Returned(TRUE, remote.reason, 0, remote.searches, TRUE,
                       _store_submission(rows, news_item, None, "reddit", at),
                       remote.cached, ProbeKind(remote)),
              Raised(0, remote.searches, rows, remote.cached,
                    ProbeKind(remote))}
        ELSE LET local == _check_local_database(rows, news_item) IN
             {Returned(local.dup, local.reason, local.reads, remote.searches,
                       FALSE, rows, remote.cached,
                    ProbeKind(remote))}
        : remote \in ProbeOutcomes(news_item, cached) }

\* is_duplicate not recording a remote hit
is_duplicate_no_store(rows, check_for_dups, cached, news_item, at) ==
    IF ~check_for_dups
    THEN {Returned(FALSE, None, 0, <<>>, FALSE, rows, cached, "none")}
    ELSE LET local == _check_local_database(rows, news_item) IN
         IF local.dup
         THEN {Returned(TRUE, local.reason, local.reads, <<>>, FALSE, rows, cached, "none")}
         ELSE UNION {
             IF remote.raised
             THEN {Raised(local.reads, remote.searches, rows, remote.cached,
                    ProbeKind(remote))}
             ELSE {Returned(remote.dup, remote.reason, local.reads, remote.searches,
                            FALSE, rows, remote.cached,
                    ProbeKind(remote))}
             : remote \in ProbeOutcomes(news_item, cached) }

\* is_duplicate recording the candidate whatever the probe found
is_duplicate_store_always(rows, check_for_dups, cached, news_item, at) ==
    IF ~check_for_dups
    THEN {Returned(FALSE, None, 0, <<>>, FALSE, rows, cached, "none")}
    ELSE LET local == _check_local_database(rows, news_item) IN
         IF local.dup
         THEN {Returned(TRUE, local.reason, local.reads, <<>>, FALSE, rows, cached, "none")}
         ELSE UNION {
             IF remote.raised
             THEN {Raised(local.reads, remote.searches, rows, remote.cached,
                    ProbeKind(remote))}
             ELSE {Returned(remote.dup, remote.reason, local.reads, remote.searches,
                            TRUE,
                            _store_submission(rows, news_item, None, "reddit", at),
                            remote.cached, ProbeKind(remote)),
                   Raised(local.reads, remote.searches, rows, remote.cached,
                    ProbeKind(remote))}
             : remote \in ProbeOutcomes(news_item, cached) }

\* is_duplicate without the test of config.check_for_duplicates
is_duplicate_ignore_flag(rows, check_for_dups, cached, news_item, at) ==
    LET local == _check_local_database(rows, news_item) IN
    IF local.dup
    THEN {Returned(TRUE, local.reason, local.reads, <<>>, FALSE, rows, cached, "none")}
    ELSE UNION {
        IF remote.raised
        THEN {Raised(local.reads, remote.searches, rows, remote.cached,
                    ProbeKind(remote))}
        ELSE IF remote.dup
        THEN {Returned(TRUE, remote.reason, local.reads, remote.searches, TRUE,
                       _store_submission(rows, news_item, None, "reddit", at),
                       remote.cached, ProbeKind(remote)),
              Raised(local.reads, remote.searches, rows, remote.cached,
                    ProbeKind(remote))}
        ELSE {Returned(FALSE, None, local.reads, remote.searches, FALSE, rows,
                       remote.cached, ProbeKind(remote))}
        : remote \in ProbeOutcomes(news_item, cached) }

is_duplicate(rows, check_for_dups, cached, news_item, at) ==
    IF ~check_for_dups
    THEN {Returned(FALSE, None, 0, <<>>, FALSE, rows, cached, "none")}
    ELSE LET local == _check_local_database(rows, news_item) IN
         IF local.dup
         THEN {Returned(TRUE, local.reason, local.reads, <<>>, FALSE, rows, cached, "none")}
         ELSE UNION {
             IF remote.raised
             THEN {Raised(local.reads, remote.searches, rows, remote.cached,
                    ProbeKind(remote))}
             ELSE IF remote.dup
             THEN \* stored for future reference; the INSERT may raise
                  {Returned(TRUE, remote.reason, local.reads, remote.searches, TRUE,
                            _store_submission(rows, news_item, None, "reddit", at),
                            remote.cached, ProbeKind(remote)),
                   Raised(local.reads, remote.searches, rows, remote.cached,
                    ProbeKind(remote))}
             ELSE {Returned(FALSE, None, local.reads, remote.searches, FALSE, rows,
                            remote.cached, ProbeKind(remote))}
             : remote \in ProbeOutcomes(news_item, cached) }

(***************************************************************************)
(* WebsiteScraper: its URL canonicalizer (news/scraper.py), computed on    *)
(* the URL as a string, and the rows of table scraped_articles             *)
(***************************************************************************)
\* 1 + str.find(c): the place of the first c in s, 0 when s has none
Find(s, c) ==
    IF \E k \in 1..Len(s) : s[k] = c
    THEN CHOOSE k \in 1..Len(s) : s[k] = c /\ \A m \in 1..(k - 1) : s[m] # c
    ELSE 0

RECURSIVE Split(_, _)
\* str.split(c) for a single character c
Split(s, c) ==
    LET p == Find(s, c) IN
    IF p = 0 THEN <<s>>
    ELSE <<SubSeq(s, 1, p - 1)>> \o Split(SubSeq(s, p + 1, Len(s)), c)

RECURSIVE Join(_, _)
\* c.join(parts)
Join(parts, c) ==
    IF parts = <<>> THEN <<>>
    ELSE IF Len(parts) = 1 THEN parts[1]
    ELSE parts[1] \o <<c>> \o Join(Tail(parts), c)

\* "fbclid"
K_fbclid == <<"f","b","c","l","i","d">>
\* "ref="
K_refeq == <<"r","e","f","=">>
\* "source="
K_sourceeq == <<"s","o","u","r","c","e","=">>
\* "http://s.io"
U_s == <<"h","t","t","p",":","/","/","s",".","i","o">>
\* "http://S.io/"
U_sSlash == <<"h","t","t","p",":","/","/","S",".","i","o","/">>
\* "http://t.io"
U_t == <<"h","t","t","p",":","/","/","t",".","i","o">>
\* "http://s.io/news/a"
L_a == <<"h","t","t","p",":","/","/","s",".","i","o","/","n","e","w","s","/","a">>
\* "http://s.io/news/a/"
L_aSlash == <<"h","t","t","p",":","/","/","s",".","i","o","/","n","e","w","s","/","a","/">>
\* "http://S.io/news/a?utm_source=x"
L_aUtm == <<"h","t","t","p",":","/","/","S",".","i","o","/","n","e","w","s","/","a","?","u","t","m","_","s","o","u","r","c","e","=","x">>
\* "http://s.io/news/a/?utm_source=x"
L_aSlashUtm == <<"h","t","t","p",":","/","/","s",".","i","o","/","n","e","w","s","/","a","/","?","u","t","m","_","s","o","u","r","c","e","=","x">>
\* "http://s.io/news/b?id=1"
L_b == <<"h","t","t","p",":","/","/","s",".","i","o","/","n","e","w","s","/","b","?","i","d","=","1">>
\* "Town Fair"
Hd_Fair == <<"T","o","w","n"," ","F","a","i","r">>
\* "Road Work"
Hd_Road == <<"R","o","a","d"," ","W","o","r","k">>
\* " The Fair Opens "
Co_Fair == <<" ","T","h","e"," ","F","a","i","r"," ","O","p","e","n","s"," ">>
\* "Main Street closes"
Co_Road == <<"M","a","i","n"," ","S","t","r","e","e","t"," ","c","l","o","s","e","s">>
\* "TOWN FAIR"
Hd_FairUpper == <<"T","O","W","N"," ","F","A","I","R">>
\* "Breaking: Town Fair"
Hd_FairBreaking == <<"B","r","e","a","k","i","n","g",":"," ","T","o","w","n"," ","F","a","i","r">>
\* "the fair opens"
Co_FairLower == <<"t","h","e"," ","f","a","i","r"," ","o","p","e","n","s">>
\* two body texts of 501 characters that differ in the last one
Co_LongA == [k \in 1..500 |-> "x"] \o <<"a">>
Co_LongB == [k \in 1..500 |-> "x"] \o <<"b">>
\* tracking_prefixes and tracking_substrings of WebsiteScraper._normalize_url
scraper_tracking_prefixes == {K_utm, K_fbclid, K_gclid}
scraper_tracking_substrings == {K_refeq, K_sourceeq}

\* a query parameter the scraper drops
IsTrackingParam(param) ==
    \/ \E prefix \in scraper_tracking_prefixes : StartsWith(param, prefix)
    \/ \E substring \in scraper_tracking_substrings : IsSubstring(substring, param)

\* WebsiteScraper._normalize_url
scraper_normalize_url(url) ==
    LET stripped     == Lower(RStripChar(url, "/"))
        fragment_pos == Find(stripped, "#")
        nofragment   == IF fragment_pos # 0
                        THEN SubSeq(stripped, 1, fragment_pos - 1) ELSE stripped
        query_pos    == Find(nofragment, "?")
        base_url     == SubSeq(nofragment, 1, query_pos - 1)
        params       == Lower(SubSeq(nofragment, query_pos + 1, Len(nofragment)))
        essential_params ==
            SelectSeq(Split(params, "&"), LAMBDA param : ~IsTrackingParam(param))
    IN  Lower(IF query_pos = 0 THEN nofragment
              ELSE IF essential_params # <<>>
              THEN base_url \o <<"?">> \o Join(essential_params, "&")
              ELSE base_url)

\* the URLs the scraper meets: seed pages and article links
ScraperUrls == {U_s, U_sSlash, U_t, L_a, L_aSlash, L_aUtm, L_aSlashUtm, L_b}

\* config.news_sites
news_sites == <<U_s, U_t>>

\* the canonical forms of the URLs, computed once
scraper_url_table == { <<u, scraper_normalize_url(u)>> : u \in ScraperUrls }

\* self._normalize_url(url) of the scraper on one of its URLs
ScraperNormalizedUrl(url) == (CHOOSE e \in scraper_url_table : e[1] = url)[2]

\* WebsiteScraper._is_news_site_url
_is_news_site_url(url) ==
    \E k \in 1..Len(news_sites) :
        ScraperNormalizedUrl(news_sites[k]) = ScraperNormalizedUrl(url)

\* the headlines and body texts extraction can yield
Headlines == {Hd_Fair, Hd_Road, Hd_FairUpper, Hd_FairBreaking}
Contents == {Co_Fair, Co_Road, Co_FairLower, Co_LongA, Co_LongB}

\* content[:500]
ContentPrefix == 500

\* content[:500].lower().strip() of every body text, computed once
content_key_table ==
    { <<c, Strip(Lower(SubSeq(c, 1, IF Len(c) < ContentPrefix
                                    THEN Len(c) ELSE ContentPrefix)))>>
      : c \in Contents }

\* content[:500].lower().strip(), the text that the fingerprint is taken of
ContentKey(content) == (CHOOSE e \in content_key_table : e[1] = content)[2]

\* self._hash_string(content[:500].lower().strip()), computed once per text
content_hash_table == { <<c, _hash_string(ContentKey(c))>> : c \in Contents }

\* content_hash of _store_scraped_article: None unless content is given
ContentHash(content) ==
    IF content = None THEN None
    ELSE (CHOOSE e \in content_hash_table : e[1] = content)[2]

\* the row _store_scraped_article writes
ScrapedRow(url, headline, content, success, at) ==
    [url            |-> url,
     url_hash       |-> _hash_string(ScraperNormalizedUrl(url)),
     normalized_url |-> ScraperNormalizedUrl(url),
     headline       |-> headline,
     content_hash   |-> ContentHash(content),
     scraped_at     |-> at,
     scrape_success |-> success]

\* _store_scraped_article as a plain INSERT that ignores the UNIQUE column
_store_scraped_article_insert(table, url, headline, content, success, at) ==
    table \cup {ScrapedRow(url, headline, content, success, at)}

\* _store_scraped_article keeping the first row of a URL (INSERT OR IGNORE)
_store_scraped_article_ignore(table, url, headline, content, success, at) ==
    IF \E r \in table : r.url_hash = _hash_string(ScraperNormalizedUrl(url))
    THEN table
    ELSE table \cup {ScrapedRow(url, headline, content, success, at)}

\* _store_scraped_article: INSERT OR REPLACE on the UNIQUE column url_hash
\* deletes the row that has this url_hash and inserts the new one
_store_scraped_article(table, url, headline, content, success, at) ==
    LET row == ScrapedRow(url, headline, content, success, at) IN
    {r \in table : r.url_hash # row.url_hash} \cup {row}

\* config.scraping_cache_hours
scraping_cache_hours == 24

\* _check_if_recently_scraped that trusts any row of the URL, whatever its age
_check_if_recently_scraped_any_age(table, skip, hours, url, at, store_ok) ==
    IF ~skip THEN [raised |-> FALSE, value |-> FALSE, read |-> FALSE]
    ELSE IF ~store_ok THEN [raised |-> TRUE, value |-> FALSE, read |-> TRUE]
    ELSE [raised |-> FALSE, read |-> TRUE,
          value |-> \E r \in table :
                        r.url_hash = _hash_string(ScraperNormalizedUrl(url))]

\* _check_if_recently_scraped without the test of skip_recently_scraped
_check_if_recently_scraped_always_on(table, skip, hours, url, at, store_ok) ==
    IF ~store_ok THEN [raised |-> TRUE, value |-> FALSE, read |-> TRUE]
    ELSE [raised |-> FALSE, read |-> TRUE,
          value |-> \E r \in table :
                        /\ r.url_hash = _hash_string(ScraperNormalizedUrl(url))
                        /\ r.scraped_at > at - hours]

\* _check_if_recently_scraped that trusts only the rows of successful attempts
_check_if_recently_scraped_successful(table, skip, hours, url, at, store_ok) ==
    IF ~skip THEN [raised |-> FALSE, value |-> FALSE, read |-> FALSE]
    ELSE IF ~store_ok THEN [raised |-> TRUE, value |-> FALSE, read |-> TRUE]
    ELSE [raised |-> FALSE, read |-> TRUE,
          value |-> \E r \in table :
                        /\ r.url_hash = _hash_string(ScraperNormalizedUrl(url))
                        /\ r.scraped_at > at - hours
                        /\ r.scrape_success]

\* _check_if_recently_scraped: False at once when the feature is off; else a
\* SELECT on url_hash and scraped_at > cutoff_time.  The SELECT is not inside
\* a try: an sqlite3 error (store_ok false) leaves the method as an exception.
_check_if_recently_scraped(table, skip, hours, url, at, store_ok) ==
    IF ~skip THEN [raised |-> FALSE, value |-> FALSE, read |-> FALSE]
    ELSE IF ~store_ok THEN [raised |-> TRUE, value |-> FALSE, read |-> TRUE]
    ELSE [raised |-> FALSE, read |-> TRUE,
          value |-> \E r \in table :
                        /\ r.url_hash = _hash_string(ScraperNormalizedUrl(url))
                        /\ r.scraped_at > at - hours]

\* cleanup_old_scraped_records deleting the rows that are not old
cleanup_old_scraped_records_young(table, at, days) ==
    LET gone == {r \in table : ~(r.scraped_at < at - days * HoursPerDay)} IN
    [table |-> table \ gone, deleted_count |-> Cardinality(gone)]

\* cleanup_old_scraped_records: DELETE ... WHERE scraped_at < cutoff_date,
\* returning cursor.rowcount
cleanup_old_scraped_records(table, at, days) ==
    LET gone == {r \in table : r.scraped_at < at - days * HoursPerDay} IN
    [table |-> table \ gone, deleted_count |-> Cardinality(gone)]

(***************************************************************************)
(* WebsiteScraper.fetch_website, called with the browser context open: the *)
(* set of its possible outcomes.  pages: the page events of its attempts   *)
(* in order; writes: the success flags of the rows it wrote, in order;     *)
(* checked: the recency check was made; table: the store afterwards.       *)
(***************************************************************************)
\* what one attempt can meet: the page loads, page.goto times out
\* (PlaywrightTimeout), page.goto fails otherwise, or new_page itself fails
PageEvents == {"ok", "timeout", "error", "no_page"}

\* await page.content() of a loaded page: a non-empty text
Html(url) == <<"<html>">> \o url

\* fetch_website returned (url, content)
Fetched(content, table, pages, writes, checked) ==
    [raised |-> FALSE, content |-> content, table |-> table, pages |-> pages,
     writes |-> writes, checked |-> checked]

\* an exception left fetch_website
FetchRaised(table, pages, writes, checked) ==
    [raised |-> TRUE, content |-> <<>>, table |-> table, pages |-> pages,
     writes |-> writes, checked |-> checked]

\* the number of retries after a timeout of a news site page
max_retries == 2

\* the retry test of fetch_website retrying article pages as well
ShouldRetryAll(is_news_site, retry_count) == retry_count < max_retries

\* the retry test of fetch_website allowing one more retry
ShouldRetryOnceMore(is_news_site, retry_count) ==
    is_news_site /\ retry_count < max_retries + 1

\* the retry test of fetch_website never retrying
ShouldRetryNever(is_news_site, retry_count) == FALSE

\* "if is_news_site and retry_count < 2" of the PlaywrightTimeout handler
ShouldRetry(is_news_site, retry_count) == is_news_site /\ retry_count < max_retries

\* the handlers' "if not is_news_site" storing for every URL
ShouldStoreAlways(is_news_site) == TRUE

\* the handlers' "if not is_news_site" storing nothing
ShouldStoreNever(is_news_site) == FALSE

\* "if not is_news_site" before each _store_scraped_article of fetch_website
ShouldStore(is_news_site) == ~is_news_site

\* the cache test of fetch_website without the bypass for force and news sites
ShouldCheckCacheAlways(force, is_news_site) == TRUE

\* "not force and not is_news_site": whether fetch_website asks the cache
ShouldCheckCache(force, is_news_site) == ~force /\ ~is_news_site

\* the failure handlers of fetch_website: a failed article fetch is stored
\* with success False (the INSERT may raise), then (url, "") is returned
FailedFetch(table, url, is_news_site, at, pages, writes, checked) ==
    IF ShouldStore(is_news_site)
    THEN {Fetched(<<>>, _store_scraped_article(table, url, None, None, FALSE, at),
                  pages, Append(writes, FALSE), checked),
          FetchRaised(table, pages, writes, checked)}
    ELSE {Fetched(<<>>, table, pages, writes, checked)}

RECURSIVE FetchAttempt(_, _, _, _, _, _, _, _)
\* fetch_website from "page = None" on, for attempt retry_count + 1
FetchAttempt(table, url, force, retry_count, at, pages, writes, checked) ==
    LET is_news_site == _is_news_site_url(url) IN
    UNION {
        LET seen == Append(pages, event) IN
        CASE event = "ok" ->
               IF ShouldStore(is_news_site)
               THEN \* line 314; an sqlite3 error there is caught by the
                    \* handler of Exception, which stores success False
                    {Fetched(Html(url),
                             _store_scraped_article(table, url, None, None, TRUE, at),
                             seen, Append(writes, TRUE), checked)}
                    \cup FailedFetch(table, url, is_news_site, at, seen, writes, checked)
               ELSE {Fetched(Html(url), table, seen, writes, checked)}
          [] event = "timeout" ->
               IF ShouldRetry(is_news_site, retry_count)
               THEN FetchAttempt(table, url, force, retry_count + 1, at, seen, writes,
                                 checked)
               ELSE FailedFetch(table, url, is_news_site, at, seen, writes, checked)
          [] OTHER ->
               FailedFetch(table, url, is_news_site, at, seen, writes, checked)
        : event \in PageEvents }

\* fetch_website(url, force), retry_count 0
fetch_website(table, skip, hours, url, force, at) ==
    IF ShouldCheckCache(force, _is_news_site_url(url))
    THEN UNION {
        LET recent == _check_if_recently_scraped(table, skip, hours, url, at, store_ok)
        IN  IF recent.raised THEN {FetchRaised(table, <<>>, <<>>, TRUE)}
            ELSE IF recent.value THEN {Fetched(<<>>, table, <<>>, <<>>, TRUE)}
            ELSE FetchAttempt(table, url, force, 0, at, <<>>, <<>>, TRUE)
        : store_ok \in BOOLEAN }
    ELSE FetchAttempt(table, url, force, 0, at, <<>>, <<>>, FALSE)

(***************************************************************************)
(* fetch_all_websites and scrape_news_sites.                               *)
(***************************************************************************)
\* dict(pairs): one entry per key, at the place of its first pair, with the
\* value of its last pair
RECURSIVE DictOf(_)
DictOf(pairs) ==
    IF pairs = <<>> THEN <<>>
    ELSE LET n    == Len(pairs)
             pair == pairs[n]
             rest == DictOf(SubSeq(pairs, 1, n - 1))
         IN  IF \E k \in 1..Len(rest) : rest[k][1] = pair[1]
             THEN [k \in 1..Len(rest) |->
                      IF rest[k][1] = pair[1] THEN pair ELSE rest[k]]
             ELSE Append(rest, pair)

RECURSIVE FetchEach(_, _, _, _, _, _)
\* the tasks of fetch_all_websites, one fetch_website(url) per URL; an
\* exception of a task becomes (url, "").  The fetches of one call are taken
\* in the order of the list.
FetchEach(table, skip, hours, urls, at, results) ==
    IF urls = <<>> THEN {[results |-> results, table |-> table]}
    ELSE UNION {
        FetchEach(fetched.table, skip, hours, Tail(urls), at,
                  Append(results, <<Head(urls), fetched.content>>))
        : fetched \in {[content |-> f.content, table |-> f.table]
                       : f \in fetch_website(table, skip, hours, Head(urls), FALSE, at)} }

\* fetch_all_websites(urls): the dict of the results and the store afterwards
fetch_all_websites(table, skip, hours, urls, at) ==
    {[results |-> DictOf(o.results), table |-> o.table]
     : o \in FetchEach(table, skip, hours, urls, at, <<>>)}

\* "if normalized_url not in all_article_urls" of the first pass, always true
IsNewUrlAlways(normalized_url, seen) == TRUE

\* "if normalized_url not in all_article_urls" of the first pass
IsNewUrl(normalized_url, seen) == normalized_url \notin seen

RECURSIVE CollectLinks(_, _, _, _, _, _, _, _)
\* the first pass of scrape_news_sites over the links of all pages: a link
\* whose normalized URL is new is remembered and, unless recently scraped,
\* queued.  The cache lookup is not guarded: its exception ends the pass.
CollectLinks(table, skip, hours, links, at, seen, queue, store_ok) ==
    IF links = <<>> THEN [raised |-> FALSE, seen |-> seen, queue |-> queue]
    ELSE LET link           == Head(links)
             normalized_url == ScraperNormalizedUrl(link)
         IN  IF ~IsNewUrl(normalized_url, seen)
             THEN CollectLinks(table, skip, hours, Tail(links), at, seen, queue,
                               store_ok)
             ELSE LET recent == _check_if_recently_scraped(table, skip, hours, link,
                                                           at, store_ok)
                  IN  IF recent.raised
                      THEN [raised |-> TRUE, seen |-> seen \cup {normalized_url},
                            queue |-> queue]
                      ELSE CollectLinks(table, skip, hours, Tail(links), at,
                                        seen \cup {normalized_url},
                                        IF recent.value THEN queue
                                        ELSE Append(queue, link),
                                        store_ok)

\* the links of the pages that have content, page after page
RECURSIVE LinksOfPages(_, _)
LinksOfPages(content, links) ==
    IF content = <<>> THEN <<>>
    ELSE (IF content[1][2] = <<>> THEN <<>> ELSE links[1])
         \o LinksOfPages(Tail(content), Tail(links))

\* article_data of extract_article_content
ArticleData(url, headline, content) ==
    [url |-> url, headline |-> headline, content |-> content]

\* headline.lower().strip()
HeadlineKey(headline) == Strip(Lower(headline))

\* DuplicationChecker._normalize_title of every headline, computed once
headline_title_table == { <<h, _normalize_title(h)>> : h \in Headlines }

\* the canonical title of a headline
CanonicalTitle(headline) == (CHOOSE e \in headline_title_table : e[1] = headline)[2]

\* the headline test of the second pass, finding no headline repeated
IsSeenHeadlineNever(headline, seen_headlines) == FALSE

\* "if headline_normalized in seen_headlines"
IsSeenHeadline(headline, seen_headlines) == HeadlineKey(headline) \in seen_headlines

\* the content test of the second pass, finding no content repeated
IsSeenContentNever(content, seen_hashes) == FALSE

\* "if content_hash in seen_content_hashes", the hash of a text standing for
\* the text
IsSeenContent(content, seen_hashes) == ContentKey(content) \in seen_hashes

RECURSIVE ProcessArticles(_, _, _, _, _, _, _, _)
\* the second pass of scrape_news_sites over article_content; data[k] is
\* what extract_article_content finds in the k-th page.  An article without
\* headline or content is stored as a failure; a repeated headline or
\* content is dropped; the others are returned and stored as a success.
\* The store calls are not guarded: after writes_ok of them the next one
\* raises and ends the pass.
ProcessArticles(table, pages, data, at, seen_headlines, seen_hashes, articles, writes_ok) ==
    IF pages = <<>>
    THEN [raised |-> FALSE, table |-> table, all_articles |-> articles]
    ELSE LET article_url == pages[1][1]
             found       == data[1]
         IN  IF pages[1][2] = <<>>
             THEN ProcessArticles(table, Tail(pages), Tail(data), at,
                                  seen_headlines, seen_hashes, articles,
                                  writes_ok)
             ELSE IF found[1] = None \/ found[2] = None
             THEN IF writes_ok = 0
                  THEN [raised |-> TRUE, table |-> table, all_articles |-> articles]
                  ELSE ProcessArticles(
                           _store_scraped_article(table, article_url, found[1], None,
                                                  FALSE, at),
                           Tail(pages), Tail(data), at, seen_headlines,
                           seen_hashes, articles, writes_ok - 1)
             ELSE IF IsSeenHeadline(found[1], seen_headlines)
                     \/ IsSeenContent(found[2], seen_hashes)
             THEN ProcessArticles(table, Tail(pages), Tail(data), at,
                                  seen_headlines, seen_hashes, articles,
                                  writes_ok)
             ELSE IF writes_ok = 0
             THEN [raised |-> TRUE, table |-> table,
                   all_articles |-> Append(articles,
                                           ArticleData(article_url, found[1], found[2]))]
             ELSE ProcessArticles(
                      _store_scraped_article(table, article_url, found[1], found[2],
                                             TRUE, at),
                      Tail(pages), Tail(data), at,
                      seen_headlines \cup {HeadlineKey(found[1])},
                      seen_hashes \cup {ContentKey(found[2])},
                      Append(articles, ArticleData(article_url, found[1], found[2])),
                      writes_ok - 1)

(***************************************************************************)
(* State.  The store and the clock persist; a run of NewsBot.run is one    *)
(* process with its own configuration, batch and board connection.         *)
(***************************************************************************)
VARIABLES
    db,                   \* table submitted_urls
    now,                  \* datetime.now(), in hours
    ticks,                \* how often the clock advanced
    runs,                 \* runs started so far
    pc,                   \* where NewsBot.run is: idle, filter, submit, record, cleanup, done
    result,               \* what the last run returned: None, <<TRUE>> or <<FALSE>>
    dry_run,              \* argument of run
    check_for_duplicates, \* config.check_for_duplicates
    subreddit,            \* RedditClient._subreddit is set (connection cached)
    batch,                \* date_filtered_items, as names of NewsItems
    idx,                    \* loop index of the current loop
    unique_items,         \* positions in batch of the items kept by _filter_duplicates
    submissions,          \* result list of submit_multiple_news_items
    next_id,              \* the next post identifier the board hands out
    last,                 \* history: the latest is_duplicate call, while run filters
    prev,                 \* history: the is_duplicate call right before it
    verdicts,             \* history: outcome of is_duplicate per batch position
    submit_calls,         \* history: batch positions handed to subreddit.submit
    submit_log,           \* history: the sleeps, calls and returns of submit_multiple_news_items
    scraped_articles,     \* table scraped_articles, as the set of its rows
    skip_recently_scraped, \* config.skip_recently_scraped
    op,                   \* history: the latest call on the scraper or a store
    ops,                  \* how many calls were made that can write
    scrape_pc,            \* where scrape_news_sites is: idle, pass1, articles, pass2, cleanup
    scrapes,              \* calls of scrape_news_sites that ended
    site_content,         \* dict of the seed pages, as a sequence of <<url, html>>
    repeated_across_pages, \* history: a later page repeated an article of an earlier page
    all_article_urls,     \* the normalized URLs seen by the first pass
    articles_to_fetch,    \* the queue of article links
    article_content,      \* dict of the article pages, as a sequence of <<url, html>>
    all_articles,         \* the articles the run returns
    extracted,            \* history: per page, <<headline, content, article_url>> of the second pass
    fetch_tasks,          \* the tasks of a call of fetch_all_websites, one per URL
    semaphore,            \* the free slots of its asyncio.Semaphore
    processed_results     \* what the call returned: None, or <<the dict>>

\* the variables of a run of NewsBot.run, and those of the scraper
run_vars == <<runs, pc, result, dry_run, check_for_duplicates, subreddit,
              batch, idx, unique_items, submissions, last, prev, verdicts,
              submit_calls, submit_log>>
scrape_vars == <<scrape_pc, scrapes, site_content, repeated_across_pages, all_article_urls,
                 articles_to_fetch, article_content, all_articles, extracted,
                 fetch_tasks, semaphore, processed_results>>
\* the variables of a call of fetch_all_websites
fetch_vars == <<fetch_tasks, semaphore, processed_results>>
scraper_vars == <<scraped_articles, skip_recently_scraped, op, ops, scrape_vars>>

vars == <<db, now, ticks, next_id, run_vars, scraper_vars>>

NoOp == [name |-> "none"]

\* no scrape_news_sites is running
ScrapeIdle ==
    /\ scrape_pc = "idle"
    /\ scrapes = 0
    /\ site_content = <<>>
    /\ repeated_across_pages = FALSE
    /\ all_article_urls = {}
    /\ articles_to_fetch = <<>>
    /\ article_content = <<>>
    /\ all_articles = <<>>
    /\ extracted = <<>>
    /\ fetch_tasks = <<>>
    /\ semaphore = 0
    /\ processed_results = None

NoCall == [called |-> FALSE]

\* every batch the aggregation can hand to the duplicate filter
Batches == UNION { [1..k -> ItemIds] : k \in 0..MaxBatch }

Init ==
    /\ db = <<>>
    /\ now = 0
    /\ ticks = 0
    /\ runs = 0
    /\ pc = "idle"
    /\ result = None
    /\ dry_run = FALSE
    /\ check_for_duplicates = TRUE
    /\ subreddit = FALSE
    /\ batch = <<>>
    /\ idx = 1
    /\ unique_items = <<>>
    /\ submissions = <<>>
    /\ next_id = 1
    /\ last = NoCall
    /\ prev = NoCall
    /\ verdicts = <<>>
    /\ submit_calls = <<>>
    /\ submit_log = <<>>
    /\ scraped_articles = {}
    /\ skip_recently_scraped = TRUE
    /\ op = NoOp
    /\ ops = 0
    /\ ScrapeIdle

\* the clock advances between runs
Tick ==
    /\ pc = "idle"
    /\ ticks < MaxTicks
    /\ now' = now + TickDays * HoursPerDay
    /\ ticks' = ticks + 1
    /\ UNCHANGED <<db, runs, pc, result, dry_run, check_for_duplicates, subreddit,
                   batch, idx, unique_items, submissions, next_id, last, prev,
                   verdicts, submit_calls, submit_log>>
    /\ UNCHANGED scraper_vars

\* NewsBot.run up to step 4: a new process with its configuration; the items
\* that passed aggregation and the validity and date filters are the batch.
\* No item: run returns False (nothing aggregated).  Dry run: no duplicate check.
StartRun ==
    /\ pc = "idle"
    /\ runs < MaxRuns
    /\ \E dry \in BOOLEAN, check \in BOOLEAN, items \in Batches :
        /\ dry_run' = dry
        /\ check_for_duplicates' = check
        /\ batch' = items
        /\ IF items = <<>>
           THEN /\ pc' = "done"
                /\ result' = <<FALSE>>
                /\ unique_items' = <<>>
           ELSE IF dry
           THEN /\ pc' = "submit"
                /\ result' = None
                /\ unique_items' = [k \in 1..Len(items) |-> k]
           ELSE /\ pc' = "filter"
                /\ result' = None
                /\ unique_items' = <<>>
    /\ runs' = runs + 1
    /\ subreddit' = FALSE
    /\ idx' = 1
    /\ submissions' = <<>>
    /\ last' = NoCall
    /\ prev' = NoCall
    /\ verdicts' = <<>>
    /\ submit_calls' = <<>>
    /\ submit_log' = <<>>
    /\ UNCHANGED <<db, now, ticks, next_id>>
    /\ UNCHANGED scraper_vars

\* _filter_duplicates keeping every item
KeepAll(unique, pos, is_dup) == Append(unique, pos)

\* what _filter_duplicates does with the verdict of one item
KeepUnique(unique, pos, is_dup) ==
    IF is_dup THEN unique ELSE Append(unique, pos)

\* one iteration of the loop of _filter_duplicates: is_duplicate on batch[idx].
\* An exception leaves _filter_duplicates and is caught by run, which returns
\* False.  After the last item run goes on to step 5, or returns True when
\* nothing is left to post.
FilterStep ==
    /\ pc = "filter"
    /\ \E out \in is_duplicate(db, check_for_duplicates, subreddit,
                               NewsItem(batch[idx]), now) :
        /\ db' = out.rows
        /\ subreddit' = out.cached
        /\ prev' = last
        /\ last' = [called |-> TRUE, pos |-> idx, item |-> batch[idx],
                    check |-> check_for_duplicates, rows_before |-> db,
                    raised |-> out.raised, dup |-> out.dup, reason |-> out.reason,
                    reads |-> out.reads, searches |-> out.searches,
                    wrote |-> out.wrote, probe |-> out.probe]
        /\ IF out.raised
           THEN /\ verdicts' = Append(verdicts, "error")
                /\ pc' = "done"
                /\ result' = <<FALSE>>
                /\ UNCHANGED <<idx, unique_items>>
           ELSE /\ verdicts' = Append(verdicts, IF out.dup THEN "dup" ELSE "unique")
                /\ unique_items' = KeepUnique(unique_items, idx, out.dup)
                /\ IF idx < Len(batch)
                   THEN /\ idx' = idx + 1
                        /\ UNCHANGED <<pc, result>>
                   ELSE /\ idx' = 1
                        /\ IF unique_items' = <<>>
                           THEN pc' = "done" /\ result' = <<TRUE>>
                           ELSE pc' = "submit" /\ UNCHANGED result
    /\ UNCHANGED <<now, ticks, runs, dry_run, check_for_duplicates, batch,
                   submissions, next_id, submit_calls, submit_log>>
    /\ UNCHANGED scraper_vars

\* delay_between_posts of submit_multiple_news_items, in seconds
delay_between_posts == 60

\* submit_multiple_news_items sleeping before every submission
ShouldSleepAlways(i, dry) == TRUE

\* submit_multiple_news_items sleeping before no submission
ShouldSleepNever(i, dry) == FALSE

\* "if i > 0 and not dry_run": asyncio.sleep(delay_between_posts) comes first
ShouldSleep(i, dry) == i > 0 /\ ~dry

\* an entry of submit_log
LogEntry(kind, pos, value) == [kind |-> kind, pos |-> pos, value |-> value]

\* one iteration of submit_multiple_news_items: the sleep, if one is due, then
\* submit_news_item on the idx-th unique item (i = idx - 1 of enumerate).
\* Dry run: nothing is sent, None.  Otherwise _get_subreddit
\* (outside the try: its exception reaches run, which returns False), then
\* subreddit.submit, whose exceptions are caught and give None.
SubmitStep ==
    /\ pc = "submit"
    /\ LET pos == unique_items[idx]
           item == NewsItem(batch[pos])
           slept == IF ShouldSleep(idx - 1, dry_run)
                    THEN Append(submit_log, LogEntry("sleep", pos, delay_between_posts))
                    ELSE submit_log
           called == Append(slept, LogEntry("submit_news_item", pos, None))
           after(sub) ==
               /\ submissions' = Append(submissions, sub)
               /\ submit_log' = Append(called, LogEntry("returned", pos, sub))
               /\ IF idx < Len(unique_items)
                  THEN idx' = idx + 1 /\ UNCHANGED pc
                  ELSE idx' = 1 /\ pc' = (IF dry_run THEN "cleanup" ELSE "record")
               /\ UNCHANGED result
       IN  IF dry_run
           THEN /\ after(None)
                /\ UNCHANGED <<subreddit, next_id, submit_calls>>
           ELSE \/ /\ ~subreddit
                   /\ pc' = "done"
                   /\ result' = <<FALSE>>
                   /\ submit_log' = called
                   /\ UNCHANGED <<subreddit, idx, submissions, next_id, submit_calls>>
                \/ /\ subreddit' = TRUE
                   /\ submit_calls' = Append(submit_calls, pos)
                   /\ \/ /\ after(PostId(next_id))
                         /\ next_id' = next_id + 1
                      \/ /\ after(None)
                         /\ UNCHANGED next_id
    /\ last' = NoCall
    /\ prev' = NoCall
    /\ UNCHANGED <<db, now, ticks, runs, dry_run, check_for_duplicates, batch,
                   unique_items, verdicts>>
    /\ UNCHANGED scraper_vars

\* step 6 recording every pair
ShouldRecordAlways(submission) == TRUE

\* "if submission:" of step 6
ShouldRecord(submission) == submission # None

\* step 6 of run, one pair of zip(unique_news_items, submissions): a post that
\* was made is recorded.  A failing INSERT raises and run returns False.
RecordStep ==
    /\ pc = "record"
    /\ LET item == NewsItem(batch[unique_items[idx]])
           sub  == submissions[idx]
           go   == IF idx < Len(unique_items)
                   THEN idx' = idx + 1 /\ UNCHANGED <<pc, result>>
                   ELSE idx' = 1 /\ pc' = "cleanup" /\ UNCHANGED result
       IN  IF ShouldRecord(sub)
           THEN \/ /\ db' = store_submission(db, item, sub, now)
                   /\ go
                \/ /\ pc' = "done"
                   /\ result' = <<FALSE>>
                   /\ UNCHANGED <<db, idx>>
           ELSE /\ go
                /\ UNCHANGED db
    /\ UNCHANGED <<now, ticks, runs, dry_run, check_for_duplicates, subreddit, batch,
                   unique_items, submissions, next_id, last, prev, verdicts,
                   submit_calls, submit_log>>
    /\ UNCHANGED scraper_vars

\* steps 7 and 8 of run: the retention sweep, then run returns True
CleanupStep ==
    /\ pc = "cleanup"
    /\ db' = cleanup_old_records(db, now, days_to_keep)
    /\ pc' = "done"
    /\ result' = <<TRUE>>
    /\ UNCHANGED <<now, ticks, runs, dry_run, check_for_duplicates, subreddit, batch,
                   idx, unique_items, submissions, next_id, last, prev, verdicts,
                   submit_calls, submit_log>>
    /\ UNCHANGED scraper_vars

\* the process of a finished run exits: only the store and the board remain
Exit ==
    /\ pc = "done"
    /\ pc' = "idle"
    /\ result' = None
    /\ dry_run' = FALSE
    /\ check_for_duplicates' = TRUE
    /\ subreddit' = FALSE
    /\ batch' = <<>>
    /\ idx' = 1
    /\ unique_items' = <<>>
    /\ submissions' = <<>>
    /\ last' = NoCall
    /\ prev' = NoCall
    /\ verdicts' = <<>>
    /\ submit_calls' = <<>>
    /\ submit_log' = <<>>
    /\ UNCHANGED <<db, now, ticks, runs, next_id>>
    /\ UNCHANGED scraper_vars

Next == Tick \/ StartRun \/ Exit \/ FilterStep \/ SubmitStep \/ RecordStep \/ CleanupStep

Spec == Init /\ [][Next]_vars

(***************************************************************************)
(* The scraper and the two stores, one call at a time: the calls the       *)
(* scraper, the orchestrator and the tests make on them, in any order,     *)
(* while the clock advances between calls.                                 *)
(***************************************************************************)
\* by how many hours the clock advances between two calls
AdvanceHours == {1, 23}

\* days_to_keep of the retention sweeps: none, one day, and the scraper's default
PurgeDays == {0, 1, 7}

\* the items whose posts are recorded
RecordedItems == {"I1", "I2"}

\* the article URLs whose attempts are recorded directly
StoredUrls == {L_a, L_aUtm, L_b}

\* the URLs that are fetched: seed pages and articles
FetchedUrls == {U_s, U_sSlash, L_a, L_aSlash, L_b}

\* what is recorded with an attempt: nothing, or a headline and its text
Extractions == {<<None, None>>, <<Hd_Fair, Co_Fair>>}

ScraperInit ==
    /\ db = <<>>
    /\ now = 0
    /\ ticks = 0
    /\ runs = 0
    /\ pc = "idle"
    /\ result = None
    /\ dry_run = FALSE
    /\ check_for_duplicates = TRUE
    /\ subreddit = FALSE
    /\ batch = <<>>
    /\ idx = 1
    /\ unique_items = <<>>
    /\ submissions = <<>>
    /\ next_id = 1
    /\ last = NoCall
    /\ prev = NoCall
    /\ verdicts = <<>>
    /\ submit_calls = <<>>
    /\ submit_log = <<>>
    /\ scraped_articles = {}
    /\ skip_recently_scraped \in BOOLEAN
    /\ op = NoOp
    /\ ops = 0
    /\ ScrapeIdle

\* time passes
Advance ==
    /\ ticks < MaxAdvances
    /\ \E dt \in AdvanceHours : now' = now + dt
    /\ ticks' = ticks + 1
    /\ op' = NoOp
    /\ UNCHANGED <<db, next_id, run_vars, scraped_articles, skip_recently_scraped, ops>>
    /\ UNCHANGED scrape_vars

\* a call of _store_scraped_article(url, headline, content, success) that
\* returns
StoreScraped ==
    /\ ops < MaxOps
    /\ \E url \in StoredUrls, extraction \in Extractions, success \in BOOLEAN :
        /\ scraped_articles' =
               _store_scraped_article(scraped_articles, url, extraction[1],
                                      extraction[2], success, now)
        /\ op' = [name |-> "_store_scraped_article", url |-> url,
                  headline |-> extraction[1], content |-> extraction[2],
                  success |-> success,
                  before |-> scraped_articles, at |-> now]
    /\ ops' = ops + 1
    /\ UNCHANGED <<db, now, ticks, next_id, run_vars, skip_recently_scraped>>
    /\ UNCHANGED scrape_vars

\* a call of _check_if_recently_scraped(url)
CheckRecentlyScraped ==
    /\ \E url \in ScraperUrls, store_ok \in BOOLEAN :
        op' = [name |-> "_check_if_recently_scraped", url |-> url,
               store_ok |-> store_ok,
               out |-> _check_if_recently_scraped(scraped_articles,
                           skip_recently_scraped, scraping_cache_hours, url, now,
                           store_ok),
               before |-> scraped_articles, at |-> now]
    /\ UNCHANGED <<db, now, ticks, next_id, run_vars, scraped_articles,
                   skip_recently_scraped, ops>>
    /\ UNCHANGED scrape_vars

\* a call of cleanup_old_scraped_records(days_to_keep)
CleanupScraped ==
    /\ \E days \in PurgeDays :
        LET out == cleanup_old_scraped_records(scraped_articles, now, days) IN
        /\ scraped_articles' = out.table
        /\ op' = [name |-> "cleanup_old_scraped_records", days |-> days,
                  deleted_count |-> out.deleted_count,
                  before |-> scraped_articles, at |-> now]
    /\ UNCHANGED <<db, now, ticks, next_id, run_vars, skip_recently_scraped, ops>>
    /\ UNCHANGED scrape_vars

\* a call of fetch_website(url, force) with the browser context open
FetchWebsite ==
    /\ ops < MaxOps
    /\ \E url \in FetchedUrls, force \in BOOLEAN :
        \E out \in fetch_website(scraped_articles, skip_recently_scraped,
                                 scraping_cache_hours, url, force, now) :
            /\ scraped_articles' = out.table
            /\ op' = [name |-> "fetch_website", url |-> url, force |-> force,
                      raised |-> out.raised, content |-> out.content,
                      pages |-> out.pages, writes |-> out.writes,
                      checked |-> out.checked,
                      before |-> scraped_articles, at |-> now]
    /\ ops' = ops + 1
    /\ UNCHANGED <<db, now, ticks, next_id, run_vars, skip_recently_scraped>>
    /\ UNCHANGED scrape_vars

\* cursor.rowcount of the DELETE of cleanup_old_records
deleted_count(rows, at, days) ==
    Len(SelectSeq(rows, LAMBDA r : r.submitted_at < at - days * HoursPerDay))

\* a call of store_submission(news_item, submission_id) that returns
StoreSubmission ==
    /\ ops < MaxOps
    /\ \E id \in RecordedItems :
        /\ db' = store_submission(db, NewsItem(id), PostId(next_id), now)
        /\ op' = [name |-> "store_submission", item |-> id,
                  submission_id |-> PostId(next_id),
                  before |-> db, at |-> now]
    /\ next_id' = next_id + 1
    /\ ops' = ops + 1
    /\ UNCHANGED <<now, ticks, run_vars, scraped_articles, skip_recently_scraped>>
    /\ UNCHANGED scrape_vars

\* a call of cleanup_old_records(days_to_keep)
CleanupSubmissions ==
    /\ \E days \in PurgeDays :
        /\ db' = cleanup_old_records(db, now, days)
        /\ op' = [name |-> "cleanup_old_records", days |-> days,
                  deleted_count |-> deleted_count(db, now, days),
                  before |-> db, at |-> now]
    /\ UNCHANGED <<now, ticks, next_id, run_vars, scraped_articles,
                   skip_recently_scraped, ops>>
    /\ UNCHANGED scrape_vars

ScraperNext ==
    \/ Advance
    \/ StoreScraped
    \/ CheckRecentlyScraped
    \/ CleanupScraped
    \/ FetchWebsite
    \/ StoreSubmission
    \/ CleanupSubmissions

ScraperSpec == ScraperInit /\ [][ScraperNext]_vars

(***************************************************************************)
(* scrape_news_sites(news_sites), run after run, while the clock advances  *)
(* between the runs.                                                       *)
(***************************************************************************)
\* the article links that the seed pages may carry
ArticleLinks == {L_a, L_aSlash, L_aUtm, L_b}

\* list(links) of extract_article_links: at most two distinct links, in any
\* order
LinkLists ==
    {<<>>} \cup {<<l>> : l \in ArticleLinks}
           \cup {pair \in ArticleLinks \X ArticleLinks : pair[1] # pair[2]}

\* what extract_article_content finds in an article page
ExtractedData ==
    {<<None, None>>, <<Hd_Road, None>>, <<Hd_Fair, Co_Fair>>,
     <<Hd_Road, Co_FairLower>>, <<Hd_FairBreaking, Co_Road>>,
     <<Hd_Road, Co_LongA>>, <<Hd_FairUpper, Co_LongB>>}

\* by how many hours the clock advances between two runs: less than the
\* cache window, and the cache window
HoursBetweenRuns == {23, 24}

\* two pages with content carry links to the same normalized URL
RepeatedAcrossPages(content, links) ==
    \E k, m \in 1..Len(content) :
        /\ k < m
        /\ content[k][2] # <<>>
        /\ content[m][2] # <<>>
        /\ \E a \in 1..Len(links[k]), b \in 1..Len(links[m]) :
               ScraperNormalizedUrl(links[k][a]) = ScraperNormalizedUrl(links[m][b])

\* the local variables of scrape_news_sites are gone when it ends
ScrapeEnds ==
    /\ scrape_pc' = "idle"
    /\ scrapes' = scrapes + 1
    /\ site_content' = <<>>
    /\ repeated_across_pages' = FALSE
    /\ all_article_urls' = {}
    /\ articles_to_fetch' = <<>>
    /\ article_content' = <<>>
    /\ all_articles' = <<>>
    /\ extracted' = <<>>

ScrapeInit ==
    /\ db = <<>>
    /\ now = 0
    /\ ticks = 0
    /\ runs = 0
    /\ pc = "idle"
    /\ result = None
    /\ dry_run = FALSE
    /\ check_for_duplicates = TRUE
    /\ subreddit = FALSE
    /\ batch = <<>>
    /\ idx = 1
    /\ unique_items = <<>>
    /\ submissions = <<>>
    /\ next_id = 1
    /\ last = NoCall
    /\ prev = NoCall
    /\ verdicts = <<>>
    /\ submit_calls = <<>>
    /\ submit_log = <<>>
    /\ scraped_articles = {}
    /\ skip_recently_scraped \in BOOLEAN
    /\ op = NoOp
    /\ ops = 0
    /\ ScrapeIdle

\* time passes between two scrape runs
ScrapeTick ==
    /\ scrape_pc = "idle"
    /\ ticks < scrapes
    /\ \E dt \in HoursBetweenRuns : now' = now + dt
    /\ ticks' = ticks + 1
    /\ UNCHANGED <<db, next_id, run_vars, scraped_articles, skip_recently_scraped,
                   op, ops, scrape_vars>>

\* scrape_news_sites up to the result of fetch_all_websites(sites)
FetchSites ==
    /\ scrape_pc = "idle"
    /\ scrapes < MaxScrapes
    /\ \E out \in fetch_all_websites(scraped_articles, skip_recently_scraped,
                                     scraping_cache_hours, news_sites, now) :
        /\ site_content' = out.results
        /\ scraped_articles' = out.table
    /\ scrape_pc' = "pass1"
    /\ UNCHANGED <<db, now, ticks, next_id, run_vars, skip_recently_scraped, op, ops,
                   scrapes, repeated_across_pages, all_article_urls,
                   articles_to_fetch, article_content, all_articles, extracted>>
    /\ UNCHANGED fetch_vars

\* the first pass: the links of the pages are collected into the queue; an
\* exception of the cache lookup ends the run
CollectArticleUrls ==
    /\ scrape_pc = "pass1"
    /\ \E links \in [1..Len(site_content) -> LinkLists], store_ok \in BOOLEAN :
        LET out == CollectLinks(scraped_articles, skip_recently_scraped,
                                scraping_cache_hours,
                                LinksOfPages(site_content, links), now, {}, <<>>,
                                store_ok)
        IN  IF out.raised
            THEN ScrapeEnds
            ELSE /\ repeated_across_pages' = RepeatedAcrossPages(site_content, links)
                 /\ all_article_urls' = out.seen
                 /\ articles_to_fetch' = out.queue
                 /\ scrape_pc' = IF out.queue = <<>> THEN "cleanup" ELSE "articles"
                 /\ UNCHANGED <<scrapes, site_content, article_content, all_articles,
                                extracted>>
    /\ UNCHANGED <<db, now, ticks, next_id, run_vars, scraped_articles,
                   skip_recently_scraped, op, ops>>
    /\ UNCHANGED fetch_vars

\* fetch_all_websites(articles_to_fetch)
FetchArticles ==
    /\ scrape_pc = "articles"
    /\ \E out \in fetch_all_websites(scraped_articles, skip_recently_scraped,
                                     scraping_cache_hours, articles_to_fetch, now) :
        /\ article_content' = out.results
        /\ scraped_articles' = out.table
    /\ scrape_pc' = "pass2"
    \* the variables of the first pass are not read again
    /\ site_content' = <<>>
    /\ repeated_across_pages' = FALSE
    /\ all_article_urls' = {}
    /\ articles_to_fetch' = <<>>
    /\ UNCHANGED <<db, now, ticks, next_id, run_vars, skip_recently_scraped, op, ops,
                   scrapes, all_articles, extracted>>
    /\ UNCHANGED fetch_vars

\* the second pass: the articles are extracted, deduplicated and stored; an
\* exception of a store call ends the run
ExtractArticles ==
    /\ scrape_pc = "pass2"
    /\ \E data \in [1..Len(article_content) -> ExtractedData],
          writes_ok \in 0..Len(article_content) :
        LET out == ProcessArticles(scraped_articles, article_content, data, now,
                                   {}, {}, <<>>, writes_ok)
        IN  /\ scraped_articles' = out.table
            /\ IF out.raised
               THEN ScrapeEnds
               ELSE /\ scrape_pc' = "cleanup"
                    /\ all_articles' = out.all_articles
                    /\ extracted' = [k \in 1..Len(article_content) |->
                                        IF article_content[k][2] = <<>>
                                        THEN <<>>
                                        ELSE data[k] \o <<article_content[k][1]>>]
                    \* article_content is not read again
                    /\ article_content' = <<>>
                    /\ UNCHANGED <<scrapes, site_content, repeated_across_pages,
                                   all_article_urls, articles_to_fetch>>
    /\ UNCHANGED <<db, now, ticks, next_id, run_vars, skip_recently_scraped, op, ops>>
    /\ UNCHANGED fetch_vars

\* "if random.random() < 0.1: self.cleanup_old_scraped_records()", and the
\* return of all_articles
CleanupAndReturn ==
    /\ scrape_pc = "cleanup"
    /\ \/ scraped_articles' =
              cleanup_old_scraped_records(scraped_articles, now, 7).table
       \/ UNCHANGED scraped_articles
    /\ ScrapeEnds
    /\ UNCHANGED <<db, now, ticks, next_id, run_vars, skip_recently_scraped, op, ops>>
    /\ UNCHANGED fetch_vars

ScrapeNext ==
    \/ ScrapeTick
    \/ FetchSites
    \/ CollectArticleUrls
    \/ FetchArticles
    \/ ExtractArticles
    \/ CleanupAndReturn

ScrapeSpec == ScrapeInit /\ [][ScrapeNext]_vars

(***************************************************************************)
(* Properties.  last and prev describe the latest two is_duplicate calls   *)
(* of the running filter loop; the store before a call is last.rows_before *)
(* and the store after it is db.                                           *)
(***************************************************************************)
\* the canonical-URL hash of item is in rows
UrlStored(rows, item) ==
    \E k \in 1..Len(rows) : rows[k].url_hash = _hash_string(NormalizedUrl(item.link))

\* the canonical-title hash of item is in rows
TitleStored(rows, item) ==
    \E k \in 1..Len(rows) :
        rows[k].title_hash = _hash_string(NormalizedTitle(item.headline))

\* some search of the call met a failing subreddit.search
SearchFailed(searches) ==
    \E k \in 1..Len(searches) : searches[k].event = "search_error"

LocalKinds == {"URL already submitted", "Similar title already submitted"}

\* C1: with duplicate-checking on, a candidate whose canonical-URL hash or
\* canonical-title hash is in the store is answered true without any remote
\* search, a URL match gives the URL reason even when the title matches too,
\* and a remote search is issued only after both store lookups were made.
C1_LocalBeforeRemote ==
    (last.called /\ last.check) =>
        LET c       == NewsItem(last.item)
            urlIn   == UrlStored(last.rows_before, c)
            titleIn == TitleStored(last.rows_before, c)
        IN  /\ (urlIn \/ titleIn) =>
                 ~last.raised /\ last.dup /\ last.searches = <<>>
                 /\ last.probe = "none"
            /\ urlIn => last.reason.kind = "URL already submitted"
            /\ (titleIn /\ ~urlIn) =>
                 last.reason.kind = "Similar title already submitted"
            /\ last.searches # <<>> => last.reads = 2

\* a checked candidate of which both the URL and the title are in the store
C1_Witness ==
    /\ last.called /\ last.check
    /\ UrlStored(last.rows_before, NewsItem(last.item))
    /\ TitleStored(last.rows_before, NewsItem(last.item))
    /\ last.dup

\* C2: when is_duplicate returned true on a remote-probe hit, the call that
\* follows at once on the same candidate returns true with a reason of the
\* local lookup and issues no remote search.
C2_RepeatAfterRemoteHit ==
    (/\ prev.called /\ last.called
     /\ ~prev.raised /\ prev.dup /\ prev.probe = "match"
     /\ last.pos = prev.pos + 1
     /\ last.item = prev.item) =>
        /\ ~last.raised /\ last.dup
        /\ last.reason.kind \in LocalKinds
        /\ last.searches = <<>>
        /\ last.probe = "none"

\* the same candidate twice in a row, the first answered by the prober
C2_Witness ==
    /\ prev.called /\ last.called
    /\ ~prev.raised /\ prev.dup /\ prev.probe = "match"
    /\ prev.searches # <<>>
    /\ last.pos = prev.pos + 1
    /\ last.item = prev.item
    /\ last.dup

\* C3 (as stated): a call of is_duplicate one of whose searches failed ends
\* with the failure propagated, never with a returned answer.
C3_SearchFailurePropagates ==
    (last.called /\ SearchFailed(last.searches)) => last.raised

\* C4: in a run that is not dry, subreddit.submit is called only for batch
\* positions is_duplicate was called on before in this run and answered false;
\* a position answered true is never submitted.
C4_SubmitOnlyNonDuplicates ==
    ~dry_run =>
        \A k \in 1..Len(submit_calls) :
            /\ submit_calls[k] \in 1..Len(verdicts)
            /\ verdicts[submit_calls[k]] = "unique"

\* a run that found a duplicate and submitted another item
C4_Witness ==
    /\ ~dry_run
    /\ submit_calls # <<>>
    /\ \E p \in 1..Len(verdicts) : verdicts[p] = "dup"

\* the records of accepted posts
LocalRows(rows) == SelectSeq(rows, LAMBDA r : r.source = "local")

\* C5: a step adds a "local" record only in a run that is not dry, for an item
\* subreddit.submit was called on before in this run and returned a post
\* identifier for, and the record carries that item and that identifier; so a
\* dry run and a failed submit add none.
C5_LocalRecordOnlyAfterPost ==
    [][ Len(LocalRows(db')) > Len(LocalRows(db)) =>
          /\ pc = "record"
          /\ ~dry_run
          /\ idx \in 1..Len(submit_calls)
          /\ submit_calls[idx] = unique_items[idx]
          /\ submissions[idx] # None
          /\ db' = Append(db, db'[Len(db')])
          /\ db'[Len(db')].source = "local"
          /\ db'[Len(db')].submission_id = submissions[idx]
          /\ db'[Len(db')].url = NewsItem(batch[unique_items[idx]]).link
          /\ db'[Len(db')].title = NewsItem(batch[unique_items[idx]]).headline
      ]_vars

\* a run of which one submit failed and another was recorded
C5_Witness ==
    /\ pc = "cleanup" /\ ~dry_run
    /\ \E j, k \in 1..Len(submissions) :
        /\ submissions[j] = None
        /\ submissions[k] # None
        /\ db # <<>>
        /\ db[Len(db)].source = "local"
        /\ db[Len(db)].submission_id = submissions[k]

\* C6 (as stated): for every record A of an accepted post with identifier s in
\* the store and a checked candidate with A's canonical URL, is_duplicate
\* returns true with a reason that names s.
C6_ReasonNamesEveryStoredId ==
    (last.called /\ last.check) =>
        \A k \in 1..Len(last.rows_before) :
            LET A == last.rows_before[k] IN
            (/\ A.source = "local"
             /\ A.submission_id # None
             /\ A.normalized_url = NormalizedUrl(NewsItem(last.item).link)) =>
                /\ ~last.raised /\ last.dup
                /\ last.reason.id = A.submission_id

\* C6 (amended): with duplicate-checking on, for a candidate whose canonical
\* URL is in the store, is_duplicate returns true with the URL reason naming
\* the submission identifier of the earliest record with that canonical URL.
C6_ReasonNamesEarliestStoredId ==
    (last.called /\ last.check) =>
        \A k \in 1..Len(last.rows_before) :
            LET cu == NormalizedUrl(NewsItem(last.item).link) IN
            (/\ last.rows_before[k].normalized_url = cu
             /\ \A m \in 1..(k - 1) : last.rows_before[m].normalized_url # cu) =>
                /\ ~last.raised /\ last.dup
                /\ last.reason.kind = "URL already submitted"
                /\ last.reason.id = last.rows_before[k].submission_id

\* a candidate whose canonical URL two accepted posts with other titles and
\* different identifiers have
C6_Witness ==
    /\ last.called /\ last.check /\ last.dup
    /\ \E k, m \in 1..Len(last.rows_before) :
        LET cu == NormalizedUrl(NewsItem(last.item).link) IN
        /\ k < m
        /\ last.rows_before[k].normalized_url = cu
        /\ last.rows_before[m].normalized_url = cu
        /\ last.rows_before[k].submission_id # last.rows_before[m].submission_id
        /\ last.rows_before[m].submission_id # None
        /\ last.rows_before[m].title # NewsItem(last.item).headline

\* C7 (as stated): for every stored record A and a checked candidate with
\* another canonical URL whose title is similar to A's title (canonical forms
\* equal, or the substring rule), an is_duplicate that returns returns true,
\* also when every search succeeded and the prober matched nothing.
C7_SimilarTitleIsDuplicate ==
    (last.called /\ last.check /\ ~last.raised /\ ~SearchFailed(last.searches)) =>
        \A k \in 1..Len(last.rows_before) :
            LET A == last.rows_before[k]
                c == NewsItem(last.item)
            IN  (/\ A.normalized_url # NormalizedUrl(c.link)
                 /\ _titles_are_similar(A.title, c.headline)) => last.dup

\* C7 (amended): with duplicate-checking on, for every stored record A and a
\* candidate with another canonical URL whose canonical title equals A's,
\* is_duplicate returns true from the store, without calling the prober.
C7_EqualCanonicalTitleIsDuplicate ==
    (last.called /\ last.check) =>
        \A k \in 1..Len(last.rows_before) :
            LET A == last.rows_before[k]
                c == NewsItem(last.item)
            IN  (/\ A.normalized_url # NormalizedUrl(c.link)
                 /\ NormalizedTitle(A.title) = NormalizedTitle(c.headline)) =>
                    /\ ~last.raised /\ last.dup
                    /\ last.reason.kind \in LocalKinds
                    /\ last.searches = <<>>
                    /\ last.probe = "none"

\* a candidate of which only the title, written differently, is in the store
C7_Witness ==
    /\ last.called /\ last.check
    /\ ~UrlStored(last.rows_before, NewsItem(last.item))
    /\ \E k \in 1..Len(last.rows_before) :
        /\ last.rows_before[k].title # NewsItem(last.item).headline
        /\ NormalizedTitle(last.rows_before[k].title)
             = NormalizedTitle(NewsItem(last.item).headline)
    /\ last.reason.kind = "Similar title already submitted"

\* no record of rows has the canonical URL of item or a title similar to its
NothingAlike(rows, item) ==
    \A k \in 1..Len(rows) :
        /\ rows[k].normalized_url # NormalizedUrl(item.link)
        /\ ~_titles_are_similar(rows[k].title, item.headline)

\* C8: with duplicate-checking on, when no stored record has the candidate's
\* canonical URL or a title similar to the candidate's and the prober returns
\* no match, is_duplicate returns (false, none) and the store is as before.
C8_NonDuplicate ==
    (/\ last.called /\ last.check
     /\ last.probe = "nomatch"
     /\ NothingAlike(last.rows_before, NewsItem(last.item))) =>
        /\ ~last.raised
        /\ ~last.dup
        /\ last.reason = None
        /\ ~last.wrote
        /\ db = last.rows_before

\* a candidate unlike every record of a populated store, the prober having
\* searched twice and matched nothing
C8_Witness ==
    /\ last.called /\ last.check
    /\ last.rows_before # <<>>
    /\ NothingAlike(last.rows_before, NewsItem(last.item))
    /\ last.probe = "nomatch"
    /\ Len(last.searches) = 2
    /\ ~last.dup

\* C9: with check_for_duplicates off, is_duplicate returns (false, none)
\* whatever the candidate and the store, makes no SELECT and no INSERT on the
\* store, and issues no remote search.
C9_CheckingOff ==
    (last.called /\ ~last.check) =>
        /\ ~last.raised
        /\ ~last.dup
        /\ last.reason = None
        /\ last.reads = 0
        /\ ~last.wrote
        /\ last.searches = <<>>
        /\ last.probe = "none"
        /\ db = last.rows_before

\* checking is off and the candidate's URL is in the store
C9_Witness ==
    /\ last.called /\ ~last.check
    /\ UrlStored(last.rows_before, NewsItem(last.item))
    /\ ~last.dup

\* C10 (as stated): a run in which is_duplicate failed for a candidate, here
\* on the INSERT after a remote hit, has called is_duplicate on every
\* candidate of the batch when it returns.
C10_RunContinuesAfterFailure ==
    (/\ pc = "done"
     /\ last.called /\ last.raised /\ last.probe = "match"
     /\ verdicts[last.pos] = "error") =>
        Len(verdicts) = Len(batch)

(***************************************************************************)
(* Properties of the scraper and of the two stores (ScraperSpec).          *)
(***************************************************************************)
\* the records of the scrape store made for a URL of the same canonical form
\* (the canonical form of the scraper)
RecordsOf(table, url) ==
    {r \in table : ScraperNormalizedUrl(r.url) = ScraperNormalizedUrl(url)}

\* the last call was _check_if_recently_scraped and the store answered
Checked == op.name = "_check_if_recently_scraped" /\ ~op.out.raised

\* C11: with the feature enabled, _check_if_recently_scraped(v) is true when
\* the store holds a record of a URL with the canonical form of v whose
\* timestamp is newer than now - scraping_cache_hours, and false when the
\* record is older or when no such URL was recorded.
C11_RecentWithinWindow ==
    (Checked /\ skip_recently_scraped) =>
        (op.out.value <=>
            \E r \in RecordsOf(op.before, op.url) :
                r.scraped_at > op.at - scraping_cache_hours)

\* a URL other than the recorded one, of the same canonical form, is found
\* recent some time after the recording
C11_Witness ==
    /\ Checked
    /\ skip_recently_scraped
    /\ op.out.value
    /\ \E r \in RecordsOf(op.before, op.url) :
           r.url # op.url /\ r.scraped_at < op.at

\* a recorded URL is no longer recent once its record is older than the window
C11_WitnessExpired ==
    /\ Checked
    /\ skip_recently_scraped
    /\ ~op.out.value
    /\ RecordsOf(op.before, op.url) # {}

\* C12: with skip_recently_scraped off, _check_if_recently_scraped returns
\* False for every URL and every store content, without reading the store.
C12_DisabledIsAlwaysMiss ==
    (op.name = "_check_if_recently_scraped" /\ ~skip_recently_scraped) =>
        (~op.out.raised /\ ~op.out.value /\ ~op.out.read)

\* the check of a URL right after the recording of that same URL, flag off
C12_Witness ==
    /\ op.name = "_check_if_recently_scraped"
    /\ ~skip_recently_scraped
    /\ ~op.out.value
    /\ \E r \in op.before : r.url = op.url /\ r.scraped_at = op.at

\* the URL has a record newer than the cache window and the feature is on
RecentlyScraped(table, url, at) ==
    /\ skip_recently_scraped
    /\ \E r \in RecordsOf(table, url) : r.scraped_at > at - scraping_cache_hours

\* fetch_website returned (url, "") without opening a page or writing a record
Skipped ==
    /\ op.name = "fetch_website"
    /\ ~op.raised
    /\ op.content = <<>>
    /\ op.pages = <<>>
    /\ op.writes = <<>>
    /\ scraped_articles = op.before

\* C13: a fetch_website that returns has skipped the page fetch exactly when
\* force is false, the URL is not a news site (seed) URL and the URL was
\* recently scraped; for a news site URL and for a forced fetch a page is
\* always opened, whatever the scrape store holds.
C13_SkipExactlyWhenCached ==
    op.name = "fetch_website" =>
        /\ ~op.raised =>
               (Skipped <=> (/\ ~op.force
                             /\ ~_is_news_site_url(op.url)
                             /\ RecentlyScraped(op.before, op.url, op.at)))
        /\ (op.force \/ _is_news_site_url(op.url)) =>
               (op.pages # <<>> /\ ~op.checked)

\* an article URL recorded under another spelling is skipped
C13_Witness ==
    /\ Skipped
    /\ ~op.force
    /\ \E r \in RecordsOf(op.before, op.url) : r.url # op.url

\* a forced fetch of a recently scraped article opens a page
C13_WitnessForced ==
    /\ op.name = "fetch_website"
    /\ op.force
    /\ RecentlyScraped(op.before, op.url, op.at)
    /\ op.pages # <<>>

\* C14: the scrape store holds at most one record per canonical URL, and
\* after _store_scraped_article that record carries the headline, the content
\* fingerprint, the time and the success flag of that call, whether it
\* reports a success or a failure; the records of other URLs are as before.
\* The record fetch_website writes carries the outcome of that fetch.
C14_OneRecordPerUrlLatestWins ==
    /\ \A r1, r2 \in scraped_articles :
           ScraperNormalizedUrl(r1.url) = ScraperNormalizedUrl(r2.url) => r1 = r2
    /\ op.name = "_store_scraped_article" =>
           /\ \E r \in RecordsOf(scraped_articles, op.url) :
                  /\ r.url = op.url
                  /\ r.headline = op.headline
                  /\ r.content_hash = ContentHash(op.content)
                  /\ r.scraped_at = op.at
                  /\ r.scrape_success = op.success
           /\ scraped_articles \ RecordsOf(scraped_articles, op.url)
                  = op.before \ RecordsOf(op.before, op.url)
    /\ (op.name = "fetch_website" /\ op.writes # <<>>) =>
           \E r \in RecordsOf(scraped_articles, op.url) :
               /\ r.url = op.url
               /\ r.scraped_at = op.at
               /\ r.scrape_success = op.writes[Len(op.writes)]

\* a failed attempt recorded later overwrites the record of a successful
\* attempt made under another spelling of the URL
C14_Witness ==
    /\ op.name = "_store_scraped_article"
    /\ ~op.success
    /\ \E r \in RecordsOf(op.before, op.url) :
           /\ r.url # op.url
           /\ r.scrape_success
           /\ r.headline # op.headline
           /\ r.scraped_at < op.at
    /\ Cardinality(scraped_articles) = 1

(***************************************************************************)
(* Properties of the submission store in the runs of the bot (Spec).       *)
(***************************************************************************)
\* C15: every step that writes to the submission store (the record of an
\* accepted post, the record is_duplicate makes on a remote hit) appends
\* exactly one row and leaves the rows that were there unchanged; rows are
\* removed by the cleanup step only, which adds none.
C15_WritesAppendOneRow ==
    [][ db' # db =>
          IF pc = "cleanup"
          THEN /\ Len(db') < Len(db)
               /\ \A k \in 1..Len(db') : \E m \in 1..Len(db) : db'[k] = db[m]
          ELSE /\ pc \in {"filter", "record"}
               /\ Len(db') = Len(db) + 1
               /\ \A k \in 1..Len(db) : db'[k] = db[k]
      ]_vars

\* the same item was recorded twice as an accepted post: two rows
C15_Witness ==
    \E k, m \in 1..Len(db) :
        /\ k < m
        /\ db[k].url = db[m].url
        /\ db[k].title = db[m].title
        /\ db[k].source = "local"
        /\ db[m].source = "local"

(***************************************************************************)
(* Properties of the scraper and of the two stores (ScraperSpec),          *)
(* continued.                                                              *)
(***************************************************************************)
\* C16: when the store fails during _check_if_recently_scraped, the call
\* returns False and raises nothing.
C16_StoreFailureIsMiss ==
    (op.name = "_check_if_recently_scraped" /\ ~op.store_ok) =>
        (~op.out.raised /\ ~op.out.value)

\* the last call was a fetch_website of an article URL that opened a page,
\* did not get its content, and returned
FailedArticleFetch ==
    /\ op.name = "fetch_website"
    /\ ~_is_news_site_url(op.url)
    /\ ~op.raised
    /\ op.pages # <<>>
    /\ op.pages[Len(op.pages)] \in {"timeout", "error", "no_page"}

\* C17: when the fetch of an article URL times out or fails and fetch_website
\* returns, one attempt was made, the store holds a record of the URL with
\* success False written by this call, and the returned content is empty.
C17_FailedArticleFetchIsRecorded ==
    FailedArticleFetch =>
        /\ Len(op.pages) = 1
        /\ op.content = <<>>
        /\ op.writes = <<FALSE>>
        /\ \E r \in RecordsOf(scraped_articles, op.url) :
               r.url = op.url /\ r.scraped_at = op.at /\ ~r.scrape_success

\* a forced fetch of an article recorded as a success times out
C17_Witness ==
    /\ FailedArticleFetch
    /\ op.pages = <<"timeout">>
    /\ \E r \in RecordsOf(op.before, op.url) : r.scrape_success
    /\ \A r \in RecordsOf(scraped_articles, op.url) : ~r.scrape_success

\* the last call was a fetch_website of a news site URL all of whose page
\* attempts timed out
SeedTimedOut ==
    /\ op.name = "fetch_website"
    /\ _is_news_site_url(op.url)
    /\ op.pages # <<>>
    /\ \A k \in 1..Len(op.pages) : op.pages[k] = "timeout"

\* C18: when every attempt to fetch a news site (seed) URL times out,
\* fetch_website makes at most 3 attempts, returns empty content and writes
\* no record of the URL.
C18_SeedRetriesBounded ==
    SeedTimedOut =>
        /\ Len(op.pages) <= 3
        /\ ~op.raised
        /\ op.content = <<>>
        /\ op.writes = <<>>
        /\ scraped_articles = op.before

\* the third attempt of a seed URL timed out, with records in the store
C18_Witness ==
    /\ SeedTimedOut
    /\ Len(op.pages) = 3
    /\ op.content = <<>>
    /\ op.before # {}

\* C19: cleanup_old_scraped_records(d) and cleanup_old_records(d) delete
\* exactly the records whose timestamp is older than now - d days, return the
\* number of records deleted and leave the other records unchanged.
C19_PurgeDeletesExactlyTheOld ==
    /\ op.name = "cleanup_old_scraped_records" =>
           /\ scraped_articles =
                  {r \in op.before : ~(r.scraped_at < op.at - op.days * 24)}
           /\ op.deleted_count = Cardinality(op.before \ scraped_articles)
    /\ op.name = "cleanup_old_records" =>
           /\ db = SelectSeq(op.before,
                             LAMBDA r : ~(r.submitted_at < op.at - op.days * 24))
           /\ op.deleted_count = Len(op.before) - Len(db)

\* a sweep of the scrape store deletes one record and keeps a newer one
C19_Witness ==
    /\ op.name = "cleanup_old_scraped_records"
    /\ op.days = 1
    /\ op.deleted_count = 1
    /\ Cardinality(op.before) = 2
    /\ Cardinality(scraped_articles) = 1

\* a sweep of the submission store deletes one record and keeps a newer one
C19_WitnessSubmissions ==
    /\ op.name = "cleanup_old_records"
    /\ op.days = 1
    /\ op.deleted_count = 1
    /\ Len(op.before) = 2
    /\ Len(db) = 1

(***************************************************************************)
(* Properties of scrape_news_sites (ScrapeSpec).                           *)
(***************************************************************************)
\* C20: in a scrape run the queue of article links never holds two links with
\* the same canonical URL (the scraper's), whatever pages the links were
\* found on; every queued link is among the URLs the first pass has seen.
C20_QueueHasNoRepeatedUrl ==
    /\ \A k, m \in 1..Len(articles_to_fetch) :
           k # m => ScraperNormalizedUrl(articles_to_fetch[k])
                        # ScraperNormalizedUrl(articles_to_fetch[m])
    /\ \A k \in 1..Len(articles_to_fetch) :
           ScraperNormalizedUrl(articles_to_fetch[k]) \in all_article_urls

\* two pages carried links to the same article and one link is queued
C20_Witness ==
    /\ scrape_pc = "articles"
    /\ repeated_across_pages
    /\ Len(articles_to_fetch) = 1
    /\ Cardinality(all_article_urls) = 1

\* the pages of the run in which extract_article_content found a headline
\* and a body text
Complete == {k \in 1..Len(extracted) : extracted[k] # <<>>
                                        /\ extracted[k][1] # None
                                        /\ extracted[k][2] # None}

\* C21: among the articles a scrape run returns no two have the same
\* fingerprint text (first 500 characters of the body, lower-cased, trimmed),
\* and every fetched article with headline and body is returned unless a
\* returned article has its headline or its fingerprint text: of two such
\* articles with different headlines and the same first 500 characters one
\* is returned.
C21_NoRepeatedContent ==
    scrape_pc = "cleanup" =>
        /\ \A k, m \in 1..Len(all_articles) :
               k # m => ContentKey(all_articles[k].content)
                            # ContentKey(all_articles[m].content)
        /\ \A k \in Complete :
               \E m \in 1..Len(all_articles) :
                   \/ /\ all_articles[m].headline = extracted[k][1]
                      /\ all_articles[m].content = extracted[k][2]
                   \/ HeadlineKey(all_articles[m].headline) = HeadlineKey(extracted[k][1])
                   \/ ContentKey(all_articles[m].content) = ContentKey(extracted[k][2])

\* two articles with different headlines whose bodies differ only after the
\* 500th character were fetched, and one was returned
C21_Witness ==
    /\ scrape_pc = "cleanup"
    /\ Complete = {1, 2}
    /\ {extracted[1][2], extracted[2][2]} = {Co_LongA, Co_LongB}
    /\ Len(all_articles) = 1

IsSchemeChar(c) ==
    \/ \E i \in 1..Len(LowerChars) : LowerChars[i] = c \/ UpperChars[i] = c
    \/ c \in {"0","1","2","3","4","5","6","7","8","9","+","-","."}

\* the place of the first of "/", "?", "#" in s, Len(s) + 1 when s has none
NetlocEnd(s) ==
    IF \E k \in 1..Len(s) : s[k] \in {"/", "?", "#"}
    THEN CHOOSE k \in 1..Len(s) :
             s[k] \in {"/", "?", "#"} /\ \A m \in 1..(k - 1) : s[m] \notin {"/", "?", "#"}
    ELSE Len(s) + 1

\* 1 + str.rfind(c): the place of the last c in s, 0 when s has none
RFind(s, c) ==
    IF \E k \in 1..Len(s) : s[k] = c
    THEN CHOOSE k \in 1..Len(s) : s[k] = c /\ \A m \in (k + 1)..Len(s) : s[m] # c
    ELSE 0

\* urllib.parse.unquote_plus on text without "%": "+" stands for a space
unquote_plus(s) == [i \in 1..Len(s) |-> IF s[i] = "+" THEN " " ELSE s[i]]

\* urllib.parse.quote_plus on text of letters, digits, "_", ".", "-" and
\* spaces: a space is written "+", the other characters are kept
quote_plus(s) == [i \in 1..Len(s) |-> IF s[i] = " " THEN "+" ELSE s[i]]

\* one name=value field of urllib.parse.parse_qsl; a field without "=" has a
\* blank value
QueryField(name_value) ==
    LET eq == Find(name_value, "=") IN
    IF eq = 0 THEN <<unquote_plus(name_value), <<>> >>
    ELSE <<unquote_plus(SubSeq(name_value, 1, eq - 1)),
           unquote_plus(SubSeq(name_value, eq + 1, Len(name_value)))>>

\* the <<key, value>> pairs of a query string, in the order written
QueryPairs(query) ==
    LET fields == SelectSeq(Split(query, "&"), LAMBDA f : f # <<>>)
    IN  [i \in 1..Len(fields) |-> QueryField(fields[i])]

\* the string urlencode writes for its pairs
QueryText(pairs) ==
    Join([i \in 1..Len(pairs) |->
            quote_plus(pairs[i][1]) \o <<"=">> \o quote_plus(pairs[i][2])], "&")

\* urllib.parse.urlparse(url) of a string; the query is kept as its pairs
urlparse(url) ==
    LET colon      == Find(url, ":")
        has_scheme == colon > 1 /\ \A k \in 1..(colon - 1) : IsSchemeChar(url[k])
        scheme     == IF has_scheme THEN Lower(SubSeq(url, 1, colon - 1)) ELSE <<>>
        rest       == IF has_scheme THEN SubSeq(url, colon + 1, Len(url)) ELSE url
        has_netloc == StartsWith(rest, <<"/", "/">>)
        after      == SubSeq(rest, 3, Len(rest))
        delim      == NetlocEnd(after)
        netloc     == IF has_netloc THEN SubSeq(after, 1, delim - 1) ELSE <<>>
        tail       == IF has_netloc THEN SubSeq(after, delim, Len(after)) ELSE rest
        hash       == Find(tail, "#")
        fragment   == IF hash = 0 THEN <<>> ELSE SubSeq(tail, hash + 1, Len(tail))
        nofragment == IF hash = 0 THEN tail ELSE SubSeq(tail, 1, hash - 1)
        mark       == Find(nofragment, "?")
        query      == IF mark = 0 THEN <<>>
                      ELSE SubSeq(nofragment, mark + 1, Len(nofragment))
        full_path  == IF mark = 0 THEN nofragment ELSE SubSeq(nofragment, 1, mark - 1)
        slash      == RFind(full_path, "/")
        semi       == Find(SubSeq(full_path, slash + 1, Len(full_path)), ";")
    IN  [scheme   |-> scheme,
         netloc   |-> netloc,
         path     |-> IF semi = 0 THEN full_path
                      ELSE SubSeq(full_path, 1, slash + semi - 1),
         params   |-> IF semi = 0 THEN <<>>
                      ELSE SubSeq(full_path, slash + semi + 1, Len(full_path)),
         query    |-> QueryPairs(query),
         fragment |-> fragment]

\* the schemes of urllib.parse.uses_netloc that the inputs use
uses_netloc == {<<"h","t","t","p">>, <<"h","t","t","p","s">>}

\* urllib.parse.urlunparse of the six parts, the query given as its pairs
urlunparse(parts) ==
    LET with_params == IF parts.params # <<>>
                       THEN parts.path \o <<";">> \o parts.params ELSE parts.path
        rooted      == IF with_params # <<>> /\ Head(with_params) # "/"
                       THEN <<"/">> \o with_params ELSE with_params
        with_netloc == IF \/ parts.netloc # <<>>
                          \/ /\ parts.scheme \in uses_netloc
                             /\ ~StartsWith(with_params, <<"/", "/">>)
                       THEN <<"/", "/">> \o parts.netloc \o rooted ELSE with_params
        with_scheme == IF parts.scheme # <<>>
                       THEN parts.scheme \o <<":">> \o with_netloc ELSE with_netloc
        query       == QueryText(parts.query)
        with_query  == IF query # <<>> THEN with_scheme \o <<"?">> \o query
                       ELSE with_scheme
    IN  IF parts.fragment # <<>> THEN with_query \o <<"#">> \o parts.fragment
        ELSE with_query

\* DuplicationChecker._normalize_url from string to string
deduplicator_normalize_url(url) == urlunparse(_normalize_url(urlparse(url)))

(***************************************************************************)
(* The canonicalizers and the title comparison as functions: one call on   *)
(* an input of a bounded set (CanonSpec)                                   *)
(***************************************************************************)
\* "HTTPS"
Sch_HTTPS == <<"H","T","T","P","S">>
\* "www.www.example.com"
H_wwwwww == <<"w","w","w",".","w","w","w",".","e","x","a","m","p","l","e",".","c","o","m">>
\* "/A"
Pa_A == <<"/","A">>
\* "/A/"
Pa_ASlash == <<"/","A","/">>
\* "id=1"
Qp_id == <<"i","d","=","1">>
\* "utm_source=x"
Qp_utm == <<"u","t","m","_","s","o","u","r","c","e","=","x">>
\* "fbclid=x"
Qp_fbclid == <<"f","b","c","l","i","d","=","x">>
\* "gclid=x"
Qp_gclid == <<"g","c","l","i","d","=","x">>
\* "b=2"
Qp_b2 == <<"b","=","2">>
\* "a=1"
Qp_a1 == <<"a","=","1">>
\* "b=3"
Qp_b3 == <<"b","=","3">>
\* "q=a+b"
Qp_q == <<"q","=","a","+","b">>
\* "Update: Breaking: Town Fair"
T_UpdateBreaking == <<"U","p","d","a","t","e",":"," ","B","r","e","a","k","i","n","g",":"," ","T","o","w","n"," ","F","a","i","r">>
\* "Breaking: Update: Town Fair"
T_BreakingUpdate == <<"B","r","e","a","k","i","n","g",":"," ","U","p","d","a","t","e",":"," ","T","o","w","n"," ","F","a","i","r">>
\* "Town Fair - CNN - BBC"
T_CnnBbc == <<"T","o","w","n"," ","F","a","i","r"," ","-"," ","C","N","N"," ","-"," ","B","B","C">>
\* "News:  Town Fair | Reuters"
T_NewsReuters == <<"N","e","w","s",":"," "," ","T","o","w","n"," ","F","a","i","r"," ","|"," ","R","e","u","t","e","r","s">>
\* "Town Fair (Updated) - Update"
T_UpdatedUpdate == <<"T","o","w","n"," ","F","a","i","r"," ","(","U","p","d","a","t","e","d",")"," ","-"," ","U","p","d","a","t","e">>

\* the parts a URL of the inputs is written from: scheme, host, path, the
\* query fields in order, fragment
UrlSchemes == {Sch_https, Sch_HTTPS}
UrlHosts == {H_plain, H_www, H_wwwwww}
UrlPaths == {<<>>, <<"/">>, Pa_A, Pa_ASlash}
UrlQueries ==
    { <<>>, <<Qp_id>>, <<Qp_utm>>, <<Qp_utm, Qp_id>>, <<Qp_id, Qp_utm>>,
      <<Qp_fbclid, Qp_id>>, <<Qp_gclid, Qp_q>>, <<Qp_b2, Qp_a1, Qp_b3>> }
UrlFragments == {<<>>, F_top}
UrlParts ==
    [scheme : UrlSchemes, host : UrlHosts, path : UrlPaths, query : UrlQueries,
     fragment : UrlFragments]

\* the URL string of the parts
UrlText(u) ==
    u.scheme \o <<":", "/", "/">> \o u.host \o u.path
    \o (IF u.query = <<>> THEN <<>> ELSE <<"?">> \o Join(u.query, "&"))
    \o (IF u.fragment = <<>> THEN <<>> ELSE <<"#">> \o u.fragment)

\* the headlines the title canonicalizer is applied to
CanonTitles ==
    Titles \cup Headlines
    \cup {T_UpdateBreaking, T_BreakingUpdate, T_CnnBbc, T_NewsReuters, T_UpdatedUpdate}

CanonInit ==
    /\ ScraperInit
    /\ skip_recently_scraped = TRUE

\* both URL canonicalizers on one URL
NormalizeUrl ==
    /\ op = NoOp
    /\ \E u \in UrlParts :
        op' = [name |-> "_normalize_url", parts |-> u, url |-> UrlText(u),
               scraper |-> scraper_normalize_url(UrlText(u)),
               deduplicator |-> deduplicator_normalize_url(UrlText(u))]
    /\ UNCHANGED <<db, now, ticks, next_id, run_vars, scraped_articles,
                   skip_recently_scraped, ops>>
    /\ UNCHANGED scrape_vars

\* the URLs every URL is compared with: "https://example.com/A" and
\* "https://example.com/A?id=1"
ComparedUrls ==
    { u \in UrlParts : /\ u.scheme = Sch_https /\ u.host = H_plain /\ u.path = Pa_A
                       /\ u.query \in {<<>>, <<Qp_id>>} /\ u.fragment = <<>> }

\* two URLs under both canonicalizers: the scrape store looks a URL up by
\* the hash of WebsiteScraper._normalize_url, the Decision Engine compares
\* URLs as DuplicationChecker._urls_are_similar does
UrlsAreSimilar ==
    /\ op = NoOp
    /\ \E u \in UrlParts, v \in ComparedUrls :
        op' = [name |-> "_urls_are_similar", url1 |-> UrlText(u), url2 |-> UrlText(v),
               scraper |-> _hash_string(scraper_normalize_url(UrlText(u)))
                               = _hash_string(scraper_normalize_url(UrlText(v))),
               deduplicator |-> deduplicator_normalize_url(UrlText(u))
                                    = deduplicator_normalize_url(UrlText(v))]
    /\ UNCHANGED <<db, now, ticks, next_id, run_vars, scraped_articles,
                   skip_recently_scraped, ops>>
    /\ UNCHANGED scrape_vars

\* DuplicationChecker._normalize_title on one headline
NormalizeTitle ==
    /\ op = NoOp
    /\ \E t \in CanonTitles :
        op' = [name |-> "_normalize_title", title |-> t,
               normalized |-> _normalize_title(t)]
    /\ UNCHANGED <<db, now, ticks, next_id, run_vars, scraped_articles,
                   skip_recently_scraped, ops>>
    /\ UNCHANGED scrape_vars

\* DuplicationChecker._titles_are_similar on two headlines
TitlesAreSimilar ==
    /\ op = NoOp
    /\ \E t1, t2 \in SimilarityTitles :
        op' = [name |-> "_titles_are_similar", title1 |-> t1, title2 |-> t2,
               similar |-> _titles_are_similar(t1, t2)]
    /\ UNCHANGED <<db, now, ticks, next_id, run_vars, scraped_articles,
                   skip_recently_scraped, ops>>
    /\ UNCHANGED scrape_vars

\* DuplicationChecker._check_reddit_submissions on one item, the two searches
\* meeting given events, on a client that has not connected yet
CheckRedditSubmissions ==
    /\ op = NoOp
    /\ \E item \in Items :
        \E events \in EventSeqs(item, FALSE, max_search_results) :
            op' = [name |-> "_check_reddit_submissions", item |-> item,
                   events |-> events,
                   out |-> ProbeWith(item, 1, FALSE, events, <<>>)]
    /\ UNCHANGED <<db, now, ticks, next_id, run_vars, scraped_articles,
                   skip_recently_scraped, ops>>
    /\ UNCHANGED scrape_vars

CanonNext ==
    \/ NormalizeUrl
    \/ UrlsAreSimilar
    \/ NormalizeTitle
    \/ TitlesAreSimilar
    \/ CheckRedditSubmissions

CanonSpec == CanonInit /\ [][CanonNext]_vars

(***************************************************************************)
(* Properties of the canonical forms (CanonSpec)                           *)
(***************************************************************************)
\* the URL canonicalizers have been applied to a URL
UrlNormalized == op.name = "_normalize_url"

\* C23: canonicalizing a canonical URL changes nothing, for the canonicalizer
\* of the scraper and for that of the duplicate checker
C23_UrlCanonicalizationIdempotent ==
    UrlNormalized =>
        /\ scraper_normalize_url(op.scraper) = op.scraper
        /\ deduplicator_normalize_url(op.deduplicator) = op.deduplicator

\* C24: canonicalizing a canonical title changes nothing, also when the headline
\* carries several of the known prefixes or suffixes
C24_TitleCanonicalizationIdempotent ==
    op.name = "_normalize_title" => _normalize_title(op.normalized) = op.normalized

\* the key prefixes that make a query parameter a tracking parameter
claimed_tracking_prefixes == {K_utm, K_fbclid, K_gclid}

\* the URL without its tracking parameters, the others in their order
WithoutTracking(u) ==
    [u EXCEPT !.query =
        SelectSeq(u.query,
                  LAMBDA f : \A p \in claimed_tracking_prefixes : ~StartsWith(f, p))]

\* C25: a URL and the same URL without its utm_, fbclid and gclid parameters have
\* the same canonical form, in both canonicalizers
C25_TrackingParametersDoNotCount ==
    UrlNormalized =>
        /\ scraper_normalize_url(UrlText(WithoutTracking(op.parts))) = op.scraper
        /\ deduplicator_normalize_url(UrlText(WithoutTracking(op.parts)))
               = op.deduplicator

\* the URL with scheme and host in lower case, without a leading "www." of the
\* host and without a trailing slash of the path
Plain(u) ==
    LET host == Lower(u.host) IN
    [u EXCEPT !.scheme = Lower(u.scheme),
              !.host = IF StartsWith(host, W_www)
                       THEN SubSeq(host, 5, Len(host)) ELSE host,
              !.path = IF u.path # <<>> /\ u.path[Len(u.path)] = "/"
                       THEN SubSeq(u.path, 1, Len(u.path) - 1) ELSE u.path]

\* C26: a URL and the same URL with scheme and host in lower case, without the
\* leading "www." and without the trailing slash of the path have the same
\* canonical form, in both canonicalizers
C26_CaseWwwAndSlashDoNotCount ==
    UrlNormalized =>
        /\ scraper_normalize_url(UrlText(Plain(op.parts))) = op.scraper
        /\ deduplicator_normalize_url(UrlText(Plain(op.parts))) = op.deduplicator

\* the canonical form of a compared headline is longer than 20 characters
IsLong(title) == Len(NormalizedTitle(title)) > 20

\* the shorter canonical title is a substring of the longer one and has more
\* than 0.8 of its length
NearlyContained(title1, title2) ==
    LET n1 == NormalizedTitle(title1)
        n2 == NormalizedTitle(title2)
    IN  \/ Len(n1) <= Len(n2) /\ IsSubstring(n1, n2) /\ 5 * Len(n1) > 4 * Len(n2)
        \/ Len(n2) <= Len(n1) /\ IsSubstring(n2, n1) /\ 5 * Len(n2) > 4 * Len(n1)

\* C27: two titles are similar exactly when their canonical titles are equal, or
\* both canonical titles are longer than 20 characters, the shorter is a
\* substring of the longer and the ratio of their lengths is above 0.8
C27_SimilarExactlyWhen ==
    op.name = "_titles_are_similar" =>
        (op.similar <=>
            \/ NormalizedTitle(op.title1) = NormalizedTitle(op.title2)
            \/ /\ IsLong(op.title1)
               /\ IsLong(op.title2)
               /\ NearlyContained(op.title1, op.title2))

\* titles of 25 and 30 characters, one a substring of the other, are similar
C27_Witness ==
    /\ op.name = "_titles_are_similar"
    /\ Len(NormalizedTitle(op.title1)) = 25
    /\ Len(NormalizedTitle(op.title2)) = 30
    /\ IsSubstring(NormalizedTitle(op.title1), NormalizedTitle(op.title2))
    /\ op.similar

\* titles of 24 and 30 characters, one a substring of the other, are not similar:
\* the ratio is 0.8
C27_WitnessRatio ==
    /\ op.name = "_titles_are_similar"
    /\ Len(NormalizedTitle(op.title1)) = 30
    /\ Len(NormalizedTitle(op.title2)) = 24
    /\ IsSubstring(NormalizedTitle(op.title2), NormalizedTitle(op.title1))
    /\ ~op.similar

\* titles of 20 and 21 characters, one a substring of the other, are not
\* similar: one of them is not longer than 20
C27_WitnessShort ==
    /\ op.name = "_titles_are_similar"
    /\ Len(NormalizedTitle(op.title1)) = 20
    /\ Len(NormalizedTitle(op.title2)) = 21
    /\ IsSubstring(NormalizedTitle(op.title1), NormalizedTitle(op.title2))
    /\ ~op.similar

C29_OnePostPerCanonicalUrl ==
    (~dry_run /\ check_for_duplicates) =>
        \A j, k \in 1..Len(submissions) :
            (j # k /\ submissions[j] # None /\ submissions[k] # None) =>
                NormalizedUrl(NewsItem(batch[unique_items[j]]).link)
                    # NormalizedUrl(NewsItem(batch[unique_items[k]]).link)

\* C30: a walk of duplicates() that raised does not end the probe: whenever the
\* result of a search holds a post that matches the candidate, that search is
\* the last one of the probe and the probe reports the match, whatever happened
\* on the posts and queries before
C30_WalkFailureDoesNotEndProbe ==
    last.called =>
        \A k \in 1..Len(last.searches) :
            last.searches[k].holds_match =>
                /\ k = Len(last.searches)
                /\ last.probe = "match"
                /\ ~last.raised => (last.dup /\ last.reason # None)

\* a walk raised on a post of the listing in which a later post matched
C30_Witness ==
    /\ last.called /\ ~last.raised /\ last.dup
    /\ Len(last.searches) = 1
    /\ last.searches[1].walk_raised
    /\ last.searches[1].holds_match

\* a walk raised on a post of the first query, the match came with the second
C30_WitnessNextQuery ==
    /\ last.called /\ ~last.raised /\ last.dup
    /\ Len(last.searches) = 2
    /\ last.searches[1].walk_raised
    /\ ~last.searches[1].holds_match
    /\ last.searches[2].holds_match

(***************************************************************************)
(* Properties of fetch_website, continued (ScraperSpec)                    *)
(***************************************************************************)
\* C31: a news site (seed) URL whose fetch ended on a network error that is
\* not a timeout is given up only after 1 + max_retries attempts
C31_SeedNetworkErrorIsRetried ==
    (/\ op.name = "fetch_website"
     /\ _is_news_site_url(op.url)
     /\ op.pages # <<>>
     /\ op.pages[Len(op.pages)] = "error") =>
        Len(op.pages) = 1 + max_retries

(***************************************************************************)
(* Properties of the prober (CanonSpec)                                    *)
(***************************************************************************)
\* the prober has been called and no search left it with an exception
Probed == op.name = "_check_reddit_submissions" /\ ~op.out.raised

\* the posts the search of query q returned
Listing(q) == op.events[q].posts

\* the entries of the duplicates relation of a post with the URL of the item
EqualEntries(item, post) ==
    { e \in 1..Len(post.duplicates.items) :
        _urls_are_similar(item.link, post.duplicates.items[e].url) }

\* a post matches the item by URL, by title, or through its duplicates relation
Matches(item, post) ==
    \/ _urls_are_similar(item.link, post.url)
    \/ _titles_are_similar(item.headline, post.title)
    \/ EqualEntries(item, post) # {}

\* the places <<query, position>> of the matching posts
MatchPlaces ==
    { pl \in (1..2) \X (1..max_search_results) :
        /\ pl[2] <= Len(Listing(pl[1]))
        /\ Matches(op.item, Listing(pl[1])[pl[2]]) }

\* place a comes before place b: earlier query, or same query and earlier post
Before(a, b) == a[1] < b[1] \/ (a[1] = b[1] /\ a[2] < b[2])

\* the first matching place, when there is one
FirstPlace == CHOOSE a \in MatchPlaces : \A b \in MatchPlaces : a = b \/ Before(a, b)

\* the searches were issued in the order of the queries, up to query n
SearchedUpTo(n) ==
    /\ Len(op.out.searches) = n
    /\ \A k \in 1..n : op.out.searches[k].query = k

\* C32, as stated: the prober returns at the first matching post in the order
\* of the queries and of the posts, the reason names the identifier of that
\* post, no search follows the match, and none is returned only when no post
\* matches
C32_FirstMatchNamesItsPost ==
    Probed =>
        IF MatchPlaces = {}
        THEN ~op.out.dup /\ op.out.reason = None /\ SearchedUpTo(2)
        ELSE /\ op.out.dup
             /\ SearchedUpTo(FirstPlace[1])
             /\ op.out.reason.id = Listing(FirstPlace[1])[FirstPlace[2]].id

\* the identifier the reason carries for a matching post: that of the post when
\* its URL or title matches, otherwise that of the first entry of its
\* duplicates relation with the URL of the item
NamedId(item, post) ==
    IF \/ _urls_are_similar(item.link, post.url)
       \/ _titles_are_similar(item.headline, post.title)
    THEN post.id
    ELSE post.duplicates.items[
             CHOOSE e \in EqualEntries(item, post) :
                 \A f \in EqualEntries(item, post) : e <= f].id

\* C32, amended: as stated, but when the match came through the duplicates
\* relation the reason names the identifier of the URL-equal entry of the
\* relation, not that of the post whose relation was walked
C32_FirstMatchNamesPostOrEntry ==
    Probed =>
        IF MatchPlaces = {}
        THEN ~op.out.dup /\ op.out.reason = None /\ SearchedUpTo(2)
        ELSE /\ op.out.dup
             /\ SearchedUpTo(FirstPlace[1])
             /\ op.out.reason.id
                  = NamedId(op.item, Listing(FirstPlace[1])[FirstPlace[2]])

\* the first query returned two posts that do not match, the second post of
\* the second query is the first match
C32_Witness ==
    /\ Probed
    /\ MatchPlaces # {}
    /\ FirstPlace = <<2, 2>>
    /\ Len(Listing(1)) = 2
    /\ op.out.dup

\* two posts of the first query match: the first is reported
C32_WitnessTwoMatches ==
    /\ Probed
    /\ {<<1, 1>>, <<1, 2>>} \subseteq MatchPlaces
    /\ op.out.reason.id = Listing(1)[1].id

\* the match came through the duplicates relation of a post
C32_WitnessRelation ==
    /\ Probed
    /\ MatchPlaces # {}
    /\ op.out.reason.kind = "Duplicate URL found via Reddit API"
    /\ op.out.reason.id # Listing(FirstPlace[1])[FirstPlace[2]].id

(***************************************************************************)
(* fetch_all_websites as concurrent tasks (FetchAllSpec): one task per     *)
(* URL, each running fetch_website inside "async with semaphore".  A task  *)
(* is suspended only at an await, so the semaphore is taken and the cache  *)
(* asked in one step, and each page attempt up to its handler is a step.   *)
(***************************************************************************)
\* the longest list of URLs handed to fetch_all_websites
MaxUrls == 3

\* asyncio.Semaphore(2)
semaphore_value == 2

\* the URLs that are requested: a news site, articles, two of them with one
\* canonical URL
RequestedUrls == {U_s, L_a, L_aSlash, L_b}

\* the lists of distinct URLs of at most MaxUrls entries
UrlLists ==
    { l \in UNION { [1..n -> RequestedUrls] : n \in 1..MaxUrls } :
        \A j, k \in DOMAIN l : j # k => l[j] # l[k] }

\* the stores a call can start on: empty, or with a record of L_a made now
StartTables == { {}, {ScrapedRow(L_a, None, None, TRUE, 0)} }

\* a task that has not entered the semaphore yet
Waiting(url) ==
    [url |-> url, pc |-> "waiting", retry_count |-> 0, pages |-> <<>>,
     checked |-> FALSE, raised |-> FALSE, content |-> <<>>]

\* the semaphore never blocking
CanAcquireAlways(free) == TRUE

\* "async with semaphore": a task enters when a slot is free
CanAcquire(free) == free > 0

\* how an attempt that is not retried ends: the page was read and, for an
\* article, recorded (an sqlite3 error of that INSERT is caught by the handler
\* of Exception, which records the failure), or a handler recorded the failure
AttemptEnds(table, url, event, at, pages) ==
    LET is_news_site == _is_news_site_url(url) IN
    IF event = "ok"
    THEN IF ShouldStore(is_news_site)
         THEN {Fetched(Html(url),
                       _store_scraped_article(table, url, None, None, TRUE, at),
                       pages, <<TRUE>>, FALSE)}
              \cup FailedFetch(table, url, is_news_site, at, pages, <<>>, FALSE)
         ELSE {Fetched(Html(url), table, pages, <<>>, FALSE)}
    ELSE FailedFetch(table, url, is_news_site, at, pages, <<>>, FALSE)

\* the results of the tasks that fetched a page, the others left out
ProcessedResultsOfFetched(done) ==
    DictOf(SelectSeq([i \in 1..Len(done) |-> <<done[i].url, done[i].content>>],
                     LAMBDA pair : pair[2] # <<>>))

\* the result of gather(return_exceptions=True) as processed_results: an
\* exception of a task becomes (url, "")
ProcessedResults(done) ==
    DictOf([i \in 1..Len(done) |->
              <<done[i].url, IF done[i].raised THEN <<>> ELSE done[i].content>>])

FetchAllInit == ScraperInit

\* fetch_all_websites(urls): the tasks are created
FetchAllStart ==
    /\ fetch_tasks = <<>>
    /\ processed_results = None
    /\ \E urls \in UrlLists, table \in StartTables :
        /\ fetch_tasks' = [i \in 1..Len(urls) |-> Waiting(urls[i])]
        /\ scraped_articles' = table
    /\ semaphore' = semaphore_value
    /\ UNCHANGED <<db, now, ticks, next_id, run_vars, skip_recently_scraped, op, ops,
                   scrape_pc, scrapes, site_content, repeated_across_pages,
                   all_article_urls, articles_to_fetch, article_content,
                   all_articles, extracted, processed_results>>

\* a task enters the semaphore and runs fetch_website up to its first await:
\* a recently scraped article is skipped, an exception of the lookup leaves the
\* task; both give the slot back at once
Enter(i) ==
    /\ fetch_tasks[i].pc = "waiting"
    /\ CanAcquire(semaphore)
    /\ LET task == fetch_tasks[i]
           ask  == ShouldCheckCache(FALSE, _is_news_site_url(task.url))
       IN  \E store_ok \in BOOLEAN :
           LET recent == _check_if_recently_scraped(
                             scraped_articles, skip_recently_scraped,
                             scraping_cache_hours, task.url, now, store_ok)
           IN  IF ask /\ recent.raised
               THEN /\ fetch_tasks' = [fetch_tasks EXCEPT ![i] =
                          [task EXCEPT !.pc = "done", !.checked = TRUE,
                                       !.raised = TRUE]]
                    /\ UNCHANGED semaphore
               ELSE IF ask /\ recent.value
               THEN /\ fetch_tasks' = [fetch_tasks EXCEPT ![i] =
                          [task EXCEPT !.pc = "done", !.checked = TRUE]]
                    /\ UNCHANGED semaphore
               ELSE /\ fetch_tasks' = [fetch_tasks EXCEPT ![i] =
                          [task EXCEPT !.pc = "fetching", !.checked = ask]]
                    /\ semaphore' = semaphore - 1
    /\ UNCHANGED <<db, now, ticks, next_id, run_vars, scraped_articles,
                   skip_recently_scraped, op, ops, scrape_pc, scrapes, site_content,
                   repeated_across_pages, all_article_urls, articles_to_fetch,
                   article_content, all_articles, extracted, processed_results>>

\* one attempt of a task: the page is opened and read, or times out, or fails.
\* A timeout of a news site page is retried by the recursive call, inside the
\* same "async with"; every other end leaves fetch_website and frees the slot.
Attempt(i) ==
    /\ fetch_tasks[i].pc = "fetching"
    /\ LET task == fetch_tasks[i] IN
       \E event \in PageEvents :
           IF event = "timeout"
              /\ ShouldRetry(_is_news_site_url(task.url), task.retry_count)
           THEN /\ fetch_tasks' = [fetch_tasks EXCEPT ![i] =
                      [task EXCEPT !.retry_count = task.retry_count + 1,
                                   !.pages = Append(task.pages, event)]]
                /\ UNCHANGED <<semaphore, scraped_articles>>
           ELSE \E out \in AttemptEnds(scraped_articles, task.url, event, now,
                                       Append(task.pages, event)) :
                /\ fetch_tasks' = [fetch_tasks EXCEPT ![i] =
                      [task EXCEPT !.pc = "done", !.pages = out.pages,
                                   !.raised = out.raised, !.content = out.content]]
                /\ scraped_articles' = out.table
                /\ semaphore' = semaphore + 1
    /\ UNCHANGED <<db, now, ticks, next_id, run_vars, skip_recently_scraped, op, ops,
                   scrape_pc, scrapes, site_content, repeated_across_pages,
                   all_article_urls, articles_to_fetch, article_content,
                   all_articles, extracted, processed_results>>

\* gather has the result of every task: the dict is returned
Gather ==
    /\ fetch_tasks # <<>>
    /\ processed_results = None
    /\ \A i \in 1..Len(fetch_tasks) : fetch_tasks[i].pc = "done"
    /\ processed_results' = <<ProcessedResults(fetch_tasks)>>
    /\ UNCHANGED <<db, now, ticks, next_id, run_vars, scraped_articles,
                   skip_recently_scraped, op, ops, scrape_pc, scrapes, site_content,
                   repeated_across_pages, all_article_urls, articles_to_fetch,
                   article_content, all_articles, extracted, fetch_tasks, semaphore>>

FetchAllNext ==
    \/ FetchAllStart
    \/ \E i \in 1..Len(fetch_tasks) : Enter(i)
    \/ \E i \in 1..Len(fetch_tasks) : Attempt(i)
    \/ Gather

FetchAllSpec == FetchAllInit /\ [][FetchAllNext]_vars

(***************************************************************************)
(* Properties of fetch_all_websites as concurrent tasks (FetchAllSpec).    *)
(***************************************************************************)
\* the tasks that hold a slot of the semaphore: their page fetch is in flight
InFlight == { i \in 1..Len(fetch_tasks) : fetch_tasks[i].pc = "fetching" }

\* C33: at every moment of fetch_all_websites at most 2 page fetches are in
\* flight, however many URLs were requested, and a seed URL that is being
\* retried still holds the slot of its first attempt: the free slots are
\* always 2 less the fetches in flight, retried ones included.
C33_AtMostTwoInFlight ==
    fetch_tasks # <<>> =>
        /\ Cardinality(InFlight) <= semaphore_value
        /\ semaphore = semaphore_value - Cardinality(InFlight)
        /\ \A i \in 1..Len(fetch_tasks) :
              fetch_tasks[i].retry_count > 0 =>
                  /\ fetch_tasks[i].pc # "waiting"
                  /\ _is_news_site_url(fetch_tasks[i].url)

\* three URLs were requested; two fetches are in flight, one of them the
\* retry of a seed URL, and the third task waits for a slot
C33_Witness ==
    /\ Len(fetch_tasks) = MaxUrls
    /\ Cardinality(InFlight) = semaphore_value
    /\ semaphore = 0
    /\ \E i \in InFlight : fetch_tasks[i].retry_count > 0
    /\ \E i \in 1..Len(fetch_tasks) : fetch_tasks[i].pc = "waiting"

\* the value of a key of a dict, None when the key is missing
ValueOf(dict, key) ==
    IF \E k \in 1..Len(dict) : dict[k][1] = key
    THEN <<dict[CHOOSE k \in 1..Len(dict) : dict[k][1] = key][2]>>
    ELSE None

\* the fetch of a task did not give a page: it raised, was skipped by the
\* cache, or its last attempt timed out or failed
GaveNoPage(task) ==
    \/ task.raised
    \/ task.pages = <<>>
    \/ task.pages[Len(task.pages)] # "ok"

\* C34: fetch_all_websites returns a map with an entry for every requested
\* URL and no other; a URL whose fetch failed, timed out, was skipped by the
\* cache or raised maps to the empty string; and every task was run whatever
\* became of the others: each one not answered by the cache opened its page.
C34_EntryForEveryUrl ==
    processed_results # None =>
        LET dict == processed_results[1] IN
        /\ Len(dict) = Len(fetch_tasks)
        /\ \A i \in 1..Len(fetch_tasks) :
              LET task == fetch_tasks[i] IN
              /\ ValueOf(dict, task.url) # None
              /\ GaveNoPage(task) => ValueOf(dict, task.url) = << <<>> >>
              /\ ~task.raised => ValueOf(dict, task.url) = <<task.content>>
              /\ task.pages = <<>> => task.checked

\* the call returned for three URLs: the first fetch failed, the second was
\* skipped by the cache, and the third gave its page
C34_Witness ==
    /\ processed_results # None
    /\ Len(fetch_tasks) = MaxUrls
    /\ fetch_tasks[1].pages = <<"error">>
    /\ fetch_tasks[2].pages = <<>> /\ ~fetch_tasks[2].raised
    /\ ValueOf(processed_results[1], fetch_tasks[3].url) = <<Html(fetch_tasks[3].url)>>
    /\ ValueOf(processed_results[1], fetch_tasks[1].url) = << <<>> >>
    /\ ValueOf(processed_results[1], fetch_tasks[2].url) = << <<>> >>

\* the call returned and a task had raised
C34_WitnessRaised ==
    /\ processed_results # None
    /\ \E i \in 1..Len(fetch_tasks) : fetch_tasks[i].raised
    /\ \E i \in 1..Len(fetch_tasks) : fetch_tasks[i].content # <<>>

(***************************************************************************)
(* Properties of the end of a run (Spec).                                  *)
(***************************************************************************)
\* the places of the result list of submit_multiple_news_items that hold a post
Posted == SelectSeq([k \in 1..Len(submissions) |-> k],
                    LAMBDA k : submissions[k] # None)

\* a run that is not dry went through steps 5 to 8 and returned True
CompletedRun ==
    pc = "done" /\ result = <<TRUE>> /\ ~dry_run /\ submissions # <<>>

\* C35: when a run that is not dry completes normally, the result list of
\* submit_multiple_news_items has one entry per submitted item in the order of
\* the items, and the records the run added for posts are the last rows of the
\* store, one per item whose submit returned a post, in the order of the items,
\* each with the link and headline of its item and the identifier of its own
\* post; no other record names a post of this run, and none was written for an
\* item whose submit failed (a record without a post identifier).
C35_RecordsExactlyThePosts ==
    CompletedRun =>
        LET n == Len(Posted) IN
        /\ Len(submissions) = Len(unique_items)
        /\ submit_calls = unique_items
        /\ Len(db) >= n
        /\ \A j \in 1..n :
              LET row  == db[Len(db) - n + j]
                  item == NewsItem(batch[unique_items[Posted[j]]])
              IN  /\ row.source = "local"
                  /\ row.submission_id = submissions[Posted[j]]
                  /\ row.url = item.link
                  /\ row.title = item.headline
                  /\ row.submitted_at = now
        /\ \A r \in 1..(Len(db) - n) :
              /\ \A k \in 1..Len(submissions) :
                    submissions[k] # None => db[r].submission_id # submissions[k]
              /\ db[r].source = "local" => db[r].submission_id # None

\* a run completed of which the first submit returned a post and the second
\* failed
C35_Witness ==
    /\ CompletedRun
    /\ Len(submissions) = MaxBatch
    /\ submissions[1] # None /\ submissions[2] = None
    /\ db[Len(db)].submission_id = submissions[1]

\* a run completed of which both submits returned a post
C35_WitnessTwoPosts ==
    /\ CompletedRun
    /\ Len(Posted) = MaxBatch
    /\ db[Len(db) - 1].submission_id = submissions[1]
    /\ db[Len(db)].submission_id = submissions[2]

\* a run is under way as a dry run
InDryRun == dry_run /\ pc \in {"submit", "cleanup"}

\* what a dry run never does: call the board, search it, or get a post
NothingRemote ==
    /\ next_id' = next_id
    /\ submit_calls' = <<>>
    /\ subreddit' = FALSE
    /\ ~last'.called
    /\ \A k \in 1..Len(submissions') : submissions'[k] = None

\* C36 (as stated): a dry run leaves the Submission-History Store unchanged: no
\* step of it adds, modifies or deletes a record, searches the board or posts.
C36_DryRunLeavesStoreUnchanged ==
    [][ InDryRun => (db' = db /\ NothingRemote) ]_vars

\* the record is older than the retention period at time at
Expired(r, at) == r.submitted_at < at - days_to_keep * HoursPerDay

\* C36 (amended): a dry run adds and modifies no record, searches nothing and
\* posts nothing; the one change it makes to the store is in step 7, which
\* deletes exactly the records older than the retention period and leaves the
\* others as they were, in their order.
C36_DryRunOnlySweeps ==
    [][ InDryRun =>
          /\ NothingRemote
          /\ \/ db' = db
             \/ /\ pc = "cleanup"
                /\ db' = SelectSeq(db, LAMBDA r : ~Expired(r, now))
      ]_vars

\* a dry run went through all its steps on a store that holds a record, and
\* the record is still there
C36_Witness ==
    /\ dry_run /\ pc = "done" /\ result = <<TRUE>>
    /\ Len(submissions) = MaxBatch
    /\ db # <<>>

\* a dry run is about to sweep a store that holds a record older than the
\* retention period
C36_WitnessSweep ==
    /\ dry_run /\ pc = "cleanup"
    /\ \E k \in 1..Len(db) : Expired(db[k], now)

(***************************************************************************)
(* Properties of the recency check on failed attempts (ScraperSpec).       *)
(***************************************************************************)
\* the store holds, for the canonical URL of url, the record of a failed
\* attempt that is newer than the cache window
FailedRecent(table, url, at) ==
    \E r \in RecordsOf(table, url) :
        ~r.scrape_success /\ r.scraped_at > at - scraping_cache_hours

\* the last call was a fetch_website without force of an article URL, and it
\* returned
FetchedArticle ==
    /\ op.name = "fetch_website"
    /\ ~op.raised
    /\ ~op.force
    /\ ~_is_news_site_url(op.url)

\* C37 (as stated): the recency check ignores the success flag: while the
\* record of a failed fetch of an article URL is inside the window,
\* _check_if_recently_scraped is true for that URL and fetch_website does not
\* fetch it again.
C37_FailedAttemptIsRecent ==
    /\ (Checked /\ FailedRecent(op.before, op.url, op.at)) => op.out.value
    /\ (FetchedArticle /\ FailedRecent(op.before, op.url, op.at)) => Skipped

\* C37 (amended): with skip_recently_scraped on, the recency check ignores the
\* success flag: while the record of a failed fetch of an article URL is
\* inside the window, _check_if_recently_scraped is true for that URL and
\* fetch_website does not fetch it again.
C37_FailedAttemptIsRecentWhenEnabled ==
    skip_recently_scraped =>
        /\ (Checked /\ FailedRecent(op.before, op.url, op.at)) => op.out.value
        /\ (FetchedArticle /\ FailedRecent(op.before, op.url, op.at)) => Skipped

\* some time after the failed fetch of an article was recorded, the article is
\* found recently scraped
C37_Witness ==
    /\ skip_recently_scraped
    /\ Checked
    /\ op.out.value
    /\ \E r \in RecordsOf(op.before, op.url) :
           ~r.scrape_success /\ r.scraped_at < op.at

\* a fetch of an article whose last fetch had failed is skipped
C37_WitnessSkipped ==
    /\ skip_recently_scraped
    /\ Skipped
    /\ FailedRecent(op.before, op.url, op.at)

(***************************************************************************)
(* Properties of the records of a scrape run (ScrapeSpec).                 *)
(***************************************************************************)
\* the pages of the second pass in which extract_article_content found no
\* headline or no content
Incomplete == {k \in 1..Len(extracted) : extracted[k] # <<>>
                                          /\ (extracted[k][1] = None
                                              \/ extracted[k][2] = None)}

\* C38: when scrape_news_sites returns, a fetched article in which no headline
\* or no content was found is not among the returned articles and the record
\* of its URL has scrape_success false; every returned article was fetched in
\* this run and the record of its URL has scrape_success true with the
\* headline of the article and the fingerprint of its content.
C38_RecordsTellWhatWasExtracted ==
    [][ scrape_pc = "cleanup" =>
          /\ \A k \in Incomplete :
                /\ \A m \in 1..Len(all_articles) :
                      all_articles[m].url # extracted[k][3]
                /\ \E r \in scraped_articles' :
                      /\ r.url = extracted[k][3]
                      /\ ~r.scrape_success
                      /\ r.headline = extracted[k][1]
                /\ \A r \in RecordsOf(scraped_articles', extracted[k][3]) :
                      ~r.scrape_success
          /\ \A m \in 1..Len(all_articles) :
                LET article == all_articles[m] IN
                /\ \E k \in Complete :
                      extracted[k] = <<article.headline, article.content, article.url>>
                /\ \E r \in scraped_articles' :
                      /\ r.url = article.url
                      /\ r.scrape_success
                      /\ r.headline = article.headline
                      /\ r.content_hash = ContentHash(article.content)
                      /\ r.content_hash # None
                /\ \A r \in RecordsOf(scraped_articles', article.url) :
                      r.scrape_success
      ]_vars

\* a run is about to return one article; of the other page it fetched the
\* headline was found and the content was not
C38_Witness ==
    /\ scrape_pc = "cleanup"
    /\ Len(all_articles) = 1
    /\ \E k \in Incomplete : extracted[k][1] # None
    /\ \E r \in scraped_articles : ~r.scrape_success /\ r.headline = Hd_Road
    /\ \E r \in scraped_articles : r.scrape_success /\ r.content_hash # None

(***************************************************************************)
(* Properties of submit_multiple_news_items (Spec): submit_log holds what  *)
(* the loop did, in order.                                                 *)
(***************************************************************************)
\* the places of submit_log at which submit_news_item was called
SubmitPlaces == {n \in 1..Len(submit_log) : submit_log[n].kind = "submit_news_item"}

\* C39: the submissions of a run are strictly sequential.  In a run that is
\* not dry, submit_news_item for an item that is not the first is called
\* right after a sleep of delay_between_posts seconds, which comes right after
\* the return of submit_news_item for the item before; the first call is the
\* first thing the loop does; a dry run never sleeps.  The items are taken in
\* the order of the list, and after a submit that failed (it returned no
\* post) the loop goes on with the next item.
C39_SubmissionsAreSequential ==
    /\ \A n \in 1..Len(submit_log) :
          LET e == submit_log[n] IN
          /\ e.kind = "submit_news_item" =>
                IF \A m \in SubmitPlaces : m >= n
                THEN n = 1
                ELSE IF dry_run
                THEN submit_log[n - 1].kind = "returned"
                ELSE /\ n >= 3
                     /\ submit_log[n - 1].kind = "sleep"
                     /\ submit_log[n - 1].value = delay_between_posts
                     /\ submit_log[n - 2].kind = "returned"
          /\ e.kind = "sleep" =>
                /\ ~dry_run
                /\ n > 1 /\ n < Len(submit_log)
                /\ submit_log[n + 1].kind = "submit_news_item"
          /\ e.kind = "returned" =>
                /\ n > 1
                /\ submit_log[n - 1] = LogEntry("submit_news_item", e.pos, None)
                /\ dry_run => e.value = None
    /\ LET calls == SelectSeq(submit_log, LAMBDA e : e.kind = "submit_news_item")
           rets  == SelectSeq(submit_log, LAMBDA e : e.kind = "returned")
       IN  /\ Len(calls) <= Len(unique_items)
           /\ \A j \in 1..Len(calls) : calls[j].pos = unique_items[j]
           /\ \A j \in 1..Len(rets) :
                 (rets[j].value = None /\ j < Len(unique_items)) =>
                     \/ pc = "submit" /\ idx = j + 1
                     \/ Len(calls) > j

\* a run that is not dry: the first submit failed, the loop slept and the
\* second submit returned a post
C39_Witness ==
    /\ ~dry_run
    /\ Len(submit_log) = 5
    /\ submit_log[2].kind = "returned" /\ submit_log[2].value = None
    /\ submit_log[3].kind = "sleep"
    /\ submit_log[4].kind = "submit_news_item"
    /\ submit_log[5].kind = "returned" /\ submit_log[5].value # None

\* a dry run of two items: two calls and no sleep
C39_WitnessDryRun ==
    /\ dry_run
    /\ Len(submit_log) = 4
    /\ submit_log[3].kind = "submit_news_item"

(***************************************************************************)
(* The two URL canonicalizers side by side (CanonSpec).                    *)
(***************************************************************************)
\* C40: the canonicalizer of the scraper and that of the Decision Engine
\* induce the same equivalence on URLs: two URLs have one record in the
\* scrape store exactly when the Decision Engine takes them for the same URL.
C40_SameEquivalence ==
    op.name = "_urls_are_similar" => (op.scraper <=> op.deduplicator)
=============================================================================
